---- MODULE Spec2Model ----
(***************************************************************************)
(* A state-machine model of the meme simulation (hyperverse/memesim):      *)
(* Meme (src/core/meme.py), Agent (src/core/agent.py), Grid                *)
(* (src/core/grid.py) and SimulationEngine (src/simulation/engine.py).     *)
(*                                                                         *)
(* Python objects live in a heap: every Meme and every Agent has an        *)
(* identity (an address), pools hold Meme addresses and the grid, the      *)
(* old_agents list and the new_agents list hold Agent addresses, so that   *)
(* aliasing and in-place mutation behave as they do in the interpreter.    *)
(*                                                                         *)
(* Real numbers are fixed point: entropy, complexity, utility and Hamming  *)
(* distance in units of 1/VAL; the configured weights and rates (ALPHA,    *)
(* BETA, MU_BASE_*, COMPLEXITY_SCALE_FACTOR) in units of 1/WSCALE; scores, *)
(* effective mutation rates and uniform draws in units of 1/(VAL*WSCALE).  *)
(***************************************************************************)
EXTENDS Integers, Sequences, FiniteSets, TLC

VARIABLES
    cfg,         \* the config module: the parameter set of the run
    heap,        \* [memes, agents, next_id]: the live Meme and Agent objects
    rng,         \* the shared np.random.Generator: the values it has yet to return
    grid,        \* Grid: [size, agents], agents maps (x,y) to an Agent address
    generation,  \* SimulationEngine.generation
    pc,          \* position of the control flow inside SimulationEngine.step
    idx,         \* loop index of the phase being executed (1-based)
    all_agents,  \* _internal_dynamics_phase: all_agents (Agent addresses)
    old_agents,  \* _external_dynamics_phase: old_agents (Agent addresses)
    new_agents,  \* _external_dynamics_phase: new_agents (Agent addresses)
    stats,       \* the statistics computed by the last get_grid_stats call
    hist,        \* record of what the running step has read and passed on
    call         \* the last call made from outside the engine, with its outcome

vars == <<cfg, heap, rng, grid, generation, pc, idx, all_agents, old_agents,
          new_agents, stats, hist, call>>

(***************************************************************************)
(* Bounds of the model.                                                    *)
(***************************************************************************)
\* number of generations a run is followed for
MaxGen == 2
\* streams 0..MaxSeed of values of the random source are explored
MaxSeed == 3
\* number of calls made from outside the engine between steps, per run
MaxCalls == 1

(***************************************************************************)
(* Fixed point.                                                            *)
(***************************************************************************)
\* one unit of entropy, complexity, utility or distance is 10^-6
VAL == 1000 * 1000
\* one unit of a configured weight or rate is 10^-2
WSCALE == 10 * 10

\* the entropy is kept to 10^-9, FINE times finer than the unit of the metrics
FINE == 1000

\* entropy of a pattern with n ones out of 16, in units of 1/(VAL*FINE), cut
\* off after the ninth digit: -(p0*log2(p0) + p1*log2(p1)), 0*log2(0) taken
\* as 0
EntropyTable ==
    <<0, 337290066, 543564443, 696212260, 811278124, 896038232, 954434002,
      988699408, 1000000000,
      988699408, 954434002, 896038232, 811278124, 696212260, 543564443,
      337290066, 0>>

\* np.log2(L) for the pattern lengths of the model
Log2(n) == CASE n = 2 -> 1 [] n = 4 -> 2 [] n = 16 -> 4

(***************************************************************************)
(* Sequence helpers (Python list operations).                              *)
(***************************************************************************)
RECURSIVE SumSeq(_)
SumSeq(s) == IF s = <<>> THEN 0 ELSE Head(s) + SumSeq(Tail(s))

\* list.pop(i), 1-based
Pop(s, i) == [j \in 1..(Len(s) - 1) |-> IF j < i THEN s[j] ELSE s[j + 1]]

\* s[:n]
Take(s, n) == [j \in 1..(IF Len(s) < n THEN Len(s) ELSE n) |-> s[j]]

Range(s) == {s[i] : i \in DOMAIN s}

\* the element of a one-element set; The({e(x) : x \in {v}}) is "let x = v in
\* e(x)" with v computed once, before e
The(S) == CHOOSE v \in S : TRUE

\* min(range(len(keys)), key=lambda i: keys[i]): the scan of Python's min keeps
\* the current best unless a strictly smaller key is met
RECURSIVE min_scan(_, _, _)
min_scan(keys, i, best) ==
    IF i > Len(keys) THEN best
    ELSE min_scan(keys, i + 1, IF keys[i] < keys[best] THEN i ELSE best)

py_min_index(keys) == min_scan(keys, 2, 1)

\* max(range(len(keys)), key=lambda i: keys[i]): keeps the current best unless
\* a strictly greater key is met
RECURSIVE max_scan(_, _, _)
max_scan(keys, i, best) ==
    IF i > Len(keys) THEN best
    ELSE max_scan(keys, i + 1, IF keys[i] > keys[best] THEN i ELSE best)

py_max_index(keys) == max_scan(keys, 2, 1)

(***************************************************************************)
(* The random source.  The values np.random.Generator returns are inputs   *)
(* of the program: rng is the sequence of values the generator has yet to  *)
(* return, each a fraction of [0, 1) in units of 1/ONE, and a draw takes   *)
(* the values at its head, one per value drawn.  A bounded integer is the  *)
(* fraction scaled to its range.                                           *)
(***************************************************************************)
ONE == VAL * WSCALE

\* rng.integers(low, high): one integer in low..high-1
rng_integers(r, low, high) ==
    [rng |-> Tail(r), ret |-> low + ((Head(r) * (high - low)) \div ONE)]

\* rng.integers(0, 2, size=n): n bits
rng_bits(r, n) ==
    [rng |-> SubSeq(r, n + 1, Len(r)), ret |-> [i \in 1..n |-> (r[i] * 2) \div ONE]]

\* rng.choice(list): the 1-based position of the element drawn
rng_choice(r, n) ==
    [rng |-> Tail(r), ret |-> 1 + ((Head(r) * n) \div ONE)]

\* rng.random(n): n uniform draws in [0, 1)
rng_random(r, n) ==
    [rng |-> SubSeq(r, n + 1, Len(r)), ret |-> SubSeq(r, 1, n)]

\* the streams of values the runs are followed on: n successive terms of a
\* congruential recurrence after the term x, each cut to a multiple of
\* ONE/4096, together with the last term reached
RECURSIVE Terms(_, _)
Terms(x, n) ==
    IF n = 0 THEN [seq |-> <<>>, last |-> x]
    ELSE IF n = 1
    THEN The({[seq |-> <<(y \div 16) * (ONE \div 4096)>>, last |-> y] :
              y \in {(x * 25173 + 13849) % 65536}})
    ELSE The({The({[seq |-> a.seq \o b.seq, last |-> b.last] :
                   b \in {Terms(a.last, n - (n \div 2))}}) :
              a \in {Terms(x, n \div 2)}})

\* stream 0 returns the least value n times and stream 1 the greatest; stream
\* k > 1 holds n terms that start at a point that depends on k
Stream(k, n) ==
    IF k = 0 THEN [i \in 1..n |-> 0]
    ELSE IF k = 1 THEN [i \in 1..n |-> ONE - 1]
    ELSE Terms((k * 7919 + 4242) % 65536, n).seq

(***************************************************************************)
(* config.py.  The code reads the module's attributes at call time; the    *)
(* model reads the fields of conf.                                          *)
(***************************************************************************)
\* the utility patterns of config.py (MEME_LENGTH = 16)
UTILITY_PATTERNS_16 ==
    << <<0,0,0,0, 1,1,1,1, 0,0,0,0, 1,1,1,1>>,
       <<1,1,1,1, 1,1,1,1, 0,0,0,0, 0,0,0,0>>,
       <<0,1,0,1, 1,0,1,0, 0,1,0,1, 1,0,1,0>>,
       <<1,1,1,1, 1,0,0,1, 1,0,0,1, 1,1,1,1>>,
       <<1,0,0,1, 0,1,1,0, 0,1,1,0, 1,0,0,1>> >>

\* a reference set for runs with MEME_LENGTH = 4
UTILITY_PATTERNS_4 == << <<0,0,1,1>>, <<1,1,1,1>> >>

\* config.py as shipped, on a grid of `size` cells a side
SourceConfig(size) ==
    [GRID_SIZE |-> size, MEME_LENGTH |-> 16, POOL_SIZE |-> 5,
     MU_BASE_INTERNAL |-> 10, MU_BASE_EXTERNAL |-> 50,
     COMPLEXITY_SCALE_FACTOR |-> 50,
     USE_UTILITY_SELECTION |-> TRUE, ALPHA |-> 50, BETA |-> 50,
     UTILITY_PATTERNS |-> UTILITY_PATTERNS_16]

\* a small parameter set: 4-bit memes, pools of k, either policy
SmallConfig(size, k, util, mu_int, mu_ext, scale) ==
    [GRID_SIZE |-> size, MEME_LENGTH |-> 4, POOL_SIZE |-> k,
     MU_BASE_INTERNAL |-> mu_int, MU_BASE_EXTERNAL |-> mu_ext,
     COMPLEXITY_SCALE_FACTOR |-> scale,
     USE_UTILITY_SELECTION |-> util, ALPHA |-> 50, BETA |-> 50,
     UTILITY_PATTERNS |-> UTILITY_PATTERNS_4]

(***************************************************************************)
(* Meme (src/core/meme.py).  A Meme object is heap.memes[id] =              *)
(* [pattern, age]; the derived metrics are functions of the pattern.       *)
(***************************************************************************)
\* the assertion on the length alone
Meme_init_ok_length_only(conf, pattern) == Len(pattern) = conf.MEME_LENGTH

\* the two assertions of Meme.__init__
Meme_init_ok(conf, pattern) ==
    /\ Len(pattern) = conf.MEME_LENGTH
    /\ \A i \in DOMAIN pattern : pattern[i] \in {0, 1}

\* Meme(pattern, age): allocates the object, returns its address
Meme_init(h, pattern, age) ==
    [heap |-> [h EXCEPT !.memes = (h.next_id :> [pattern |-> pattern, age |-> age]) @@ @,
                        !.next_id = @ + 1],
     ret |-> h.next_id]

\* the entropy in units of 1/(VAL*FINE)
entropy_fine(pattern) ==
    LET n_ones == SumSeq(pattern)
    IN  EntropyTable[((n_ones * 16) \div Len(pattern)) + 1]

\* the entropy of a uniform or balanced pattern is 0 or 1; any other is
\* irrational and its table entry lies below it
entropy_exact(pattern) == entropy_fine(pattern) % (VAL * FINE) = 0

entropy(pattern) == entropy_fine(pattern) \div FINE

\* the entropy taken as it is, without the division
complexity_unnormalized(pattern) == entropy(pattern)

complexity(pattern) == entropy(pattern) \div Log2(Len(pattern))

hamming_distance(p, q) ==
    (Cardinality({i \in DOMAIN p : p[i] # q[i]}) * VAL) \div Len(p)

RECURSIVE min_distance(_, _, _)
min_distance(pattern, refs, best) ==
    IF refs = <<>> THEN best
    ELSE LET d == hamming_distance(pattern, Head(refs))
         IN  min_distance(pattern, Tail(refs), IF d < best THEN d ELSE best)

\* the utility measured against the first reference pattern alone
utility_first_reference(conf, pattern) ==
    IF conf.UTILITY_PATTERNS = <<>> THEN 0
    ELSE VAL - hamming_distance(pattern, conf.UTILITY_PATTERNS[1])

\* VAL + 1 stands for float('inf')
utility(conf, pattern) ==
    IF conf.UTILITY_PATTERNS = <<>> THEN 0
    ELSE VAL - min_distance(pattern, conf.UTILITY_PATTERNS, VAL + 1)

combined_score(conf, pattern, alpha, beta) ==
    (alpha * utility(conf, pattern)) - (beta * complexity(pattern))

\* mu_base + scale * (h / lg) for an entropy h in units of 1/(VAL*FINE), as
\* the least draw, in units of 1/ONE, that is not below it: the sum rounded
\* up to the unit of the draws.  The product is taken on the quotient and the
\* remainder of h by FINE * lg apart, which keeps every term below 2^31.
\* Sums the floating point rounds away from their decimal value (as
\* 0.01 + 0.05 * 1.0) do not occur for the rates of the configurations here.
rate_bound(mu_base, scale, h, lg, exact) ==
    LET unit == FINE * lg
        whole == (scale * (h \div unit)) + ((scale * (h % unit)) \div unit)
    IN  (mu_base * VAL)
        + (IF scale = 0 \/ (exact /\ (scale * (h % unit)) % unit = 0)
           THEN whole ELSE whole + 1)

\* mu_eff = mu_base + config.COMPLEXITY_SCALE_FACTOR * self.complexity,
\* complexity being entropy / np.log2(len(pattern))
effective_rate(conf, pattern, mu_base) ==
    rate_bound(mu_base, conf.COMPLEXITY_SCALE_FACTOR, entropy_fine(pattern),
               Log2(Len(pattern)), entropy_exact(pattern))

\* a mask that treats a probability of 1 or more as no mutation at all
flip_below_one(pattern, u, mu_eff) ==
    [i \in DOMAIN pattern |->
        IF u[i] < mu_eff /\ mu_eff < VAL * WSCALE THEN 1 - pattern[i] ELSE pattern[i]]

\* the bits of new_pattern after new_pattern[mask] = 1 - new_pattern[mask]
flip(pattern, u, mu_eff) ==
    [i \in DOMAIN pattern |-> IF u[i] < mu_eff THEN 1 - pattern[i] ELSE pattern[i]]

\* copy_with_mutation with the weight of the complexity term fixed at the
\* value config.py ships, whatever the configuration says
copy_with_mutation_shipped_scale(conf, h, r, m, mu_base) ==
    LET src == h.memes[m].pattern
        mu_eff == effective_rate(SourceConfig(1), src, mu_base)
        d == rng_random(r, Len(src))
        made == Meme_init(h, flip(src, d.ret, mu_eff), 0)
    IN  [heap |-> made.heap, rng |-> d.rng, ret |-> made.ret]

\* copy_with_mutation giving the copy the age of its source
copy_with_mutation_keeps_age(conf, h, r, m, mu_base) ==
    LET src == h.memes[m].pattern
        mu_eff == effective_rate(conf, src, mu_base)
        d == rng_random(r, Len(src))
        made == Meme_init(h, flip(src, d.ret, mu_eff), h.memes[m].age)
    IN  [heap |-> made.heap, rng |-> d.rng, ret |-> made.ret]

\* Meme.copy_with_mutation(mu_base, rng) on the Meme at address m
copy_with_mutation(conf, h, r, m, mu_base) ==
    LET src == h.memes[m].pattern
        mu_eff == effective_rate(conf, src, mu_base)
        d == rng_random(r, Len(src))
        made == Meme_init(h, flip(src, d.ret, mu_eff), 0)
    IN  [heap |-> made.heap, rng |-> d.rng, ret |-> made.ret]

\* an ageing that counts two generations at once
increment_age_twice(h, m) == [h EXCEPT !.memes[m].age = @ + 2]

increment_age(h, m) == [h EXCEPT !.memes[m].age = @ + 1]

\* Meme.random(rng)
Meme_random(conf, h, r) ==
    LET d == rng_bits(r, conf.MEME_LENGTH)
        made == Meme_init(h, d.ret, 0)
    IN  [heap |-> made.heap, rng |-> d.rng, ret |-> made.ret]

(***************************************************************************)
(* Agent (src/core/agent.py).  An Agent object is heap.agents[id] =        *)
(* [x, y, meme_pool], meme_pool a sequence of Meme addresses.              *)
(***************************************************************************)
\* the assertion of Agent.__init__
Agent_init_ok(conf, initial_memes) == Len(Take(initial_memes, conf.POOL_SIZE)) > 0

\* Agent(x, y, initial_memes): allocates the object, returns its address
Agent_init(conf, h, x, y, initial_memes) ==
    [heap |-> [h EXCEPT !.agents = (h.next_id :>
                            [x |-> x, y |-> y,
                             meme_pool |-> Take(initial_memes, conf.POOL_SIZE)]) @@ @,
                        !.next_id = @ + 1],
     ret |-> h.next_id]

pool_of(h, a) == h.agents[a].meme_pool

pool_scores(conf, h, pool) ==
    [i \in DOMAIN pool |-> combined_score(conf, h.memes[pool[i]].pattern, conf.ALPHA, conf.BETA)]

pool_complexities(h, pool) ==
    [i \in DOMAIN pool |-> complexity(h.memes[pool[i]].pattern)]

\* a scan that keeps the last of several equal extremes
RECURSIVE last_scan(_, _, _, _)
last_scan(keys, i, best, greatest) ==
    IF i > Len(keys) THEN best
    ELSE last_scan(keys, i + 1,
                   IF (greatest /\ keys[i] >= keys[best]) \/ (~greatest /\ keys[i] <= keys[best])
                   THEN i ELSE best,
                   greatest)

\* get_dominant_meme with ties resolved towards the latest member
get_dominant_meme_last(conf, h, a) ==
    LET pool == pool_of(h, a)
    IN  IF conf.USE_UTILITY_SELECTION
        THEN pool[last_scan(pool_scores(conf, h, pool), 2, 1, TRUE)]
        ELSE pool[last_scan(pool_complexities(h, pool), 2, 1, FALSE)]

\* Agent.get_dominant_meme(): the address of the dominant Meme
get_dominant_meme(conf, h, a) ==
    LET pool == pool_of(h, a)
    IN  IF conf.USE_UTILITY_SELECTION
        THEN pool[py_max_index(pool_scores(conf, h, pool))]
        ELSE pool[py_min_index(pool_complexities(h, pool))]

\* evict_index with ties resolved towards the latest member
evict_index_last(conf, h, pool) ==
    IF conf.USE_UTILITY_SELECTION
    THEN last_scan(pool_scores(conf, h, pool), 2, 1, FALSE)
    ELSE last_scan(pool_complexities(h, pool), 2, 1, TRUE)

\* an eviction that removes the member that has been in the pool longest
evict_index_first(conf, h, pool) == 1

\* the index popped by _add_to_pool from a pool that exceeds POOL_SIZE
evict_index(conf, h, pool) ==
    IF conf.USE_UTILITY_SELECTION
    THEN py_min_index(pool_scores(conf, h, pool))
    ELSE py_max_index(pool_complexities(h, pool))

\* _add_to_pool without the eviction
add_to_pool_unbounded(conf, h, a, m) ==
    [h EXCEPT !.agents[a].meme_pool = Append(pool_of(h, a), m)]

\* Agent._add_to_pool(meme)
add_to_pool(conf, h, a, m) ==
    The({IF Len(appended) > conf.POOL_SIZE
         THEN [h EXCEPT !.agents[a].meme_pool = Pop(appended, evict_index(conf, h, appended))]
         ELSE [h EXCEPT !.agents[a].meme_pool = appended] :
         appended \in {Append(pool_of(h, a), m)}})

\* Agent.internal_rehearsal(rng)
internal_rehearsal(conf, h, r, a) ==
    LET pool == pool_of(h, a)
        c == rng_choice(r, Len(pool))
    IN  The({[heap |-> add_to_pool(conf, rehearsed.heap, a, rehearsed.ret),
              rng |-> rehearsed.rng] :
             rehearsed \in {copy_with_mutation(conf, h, c.rng, pool[c.ret],
                                                conf.MU_BASE_INTERNAL)}})

\* Agent.receive_meme(source_meme, rng)
receive_meme(conf, h, r, a, source_meme) ==
    The({[heap |-> add_to_pool(conf, invaded.heap, a, invaded.ret), rng |-> invaded.rng] :
         invaded \in {copy_with_mutation(conf, h, r, source_meme, conf.MU_BASE_EXTERNAL)}})

\* Agent.age_memes(): one increment_age per element of the pool list
RECURSIVE age_loop(_, _)
age_loop(h, pool) ==
    IF pool = <<>> THEN h
    ELSE The({age_loop(aged, Tail(pool)) : aged \in {increment_age(h, Head(pool))}})

\* an age_memes() that ages the memes of every pool in memory
age_memes_every_pool(h, a) ==
    [h EXCEPT !.memes = [m \in DOMAIN h.memes |-> [h.memes[m] EXCEPT !.age = @ + 1]]]

age_memes(h, a) == age_loop(h, pool_of(h, a))

\* the loop of Agent.copy: a new Meme per pool member, same pattern and age
RECURSIVE copy_loop(_, _)
copy_loop(h, pool) ==
    IF pool = <<>> THEN [heap |-> h, ret |-> <<>>]
    ELSE LET src == h.memes[Head(pool)]
         IN  The({The({[heap |-> rest.heap, ret |-> <<made.ret>> \o rest.ret] :
                       rest \in {copy_loop(made.heap, Tail(pool))}}) :
                  made \in {Meme_init(h, src.pattern, src.age)}})

\* a copy() whose new agent holds the Meme objects of the original
Agent_copy_shallow(conf, h, a) ==
    Agent_init(conf, h, h.agents[a].x, h.agents[a].y, pool_of(h, a))

\* a copy() that hands back the agent itself
Agent_copy_alias(conf, h, a) == [heap |-> h, ret |-> a]

\* Agent.copy()
Agent_copy(conf, h, a) ==
    The({Agent_init(conf, copied.heap, h.agents[a].x, h.agents[a].y, copied.ret) :
         copied \in {copy_loop(h, pool_of(h, a))}})

(***************************************************************************)
(* Grid (src/core/grid.py).  grid = [size, agents]; agents maps the        *)
(* coordinates <<x, y>> to the address of the Agent stored in that cell.   *)
(***************************************************************************)
Coords(size) == (0..(size - 1)) \X (0..(size - 1))

\* the K Meme.random(rng) of one cell
RECURSIVE initial_memes(_, _, _, _)
\* a list that stops one meme short when more than one is asked for
initial_memes_one_short(conf, h, r, n) ==
    IF n = 0 THEN [heap |-> h, rng |-> r, ret |-> <<>>]
    ELSE The({The({[heap |-> rest.heap, rng |-> rest.rng, ret |-> <<made.ret>> \o rest.ret] :
                   rest \in {initial_memes(conf, made.heap, made.rng,
                                           IF n >= 2 THEN n - 2 ELSE 0)}}) :
              made \in {Meme_random(conf, h, r)}})

initial_memes(conf, h, r, n) ==
    IF n = 0 THEN [heap |-> h, rng |-> r, ret |-> <<>>]
    ELSE The({The({[heap |-> rest.heap, rng |-> rest.rng, ret |-> <<made.ret>> \o rest.ret] :
                   rest \in {initial_memes(conf, made.heap, made.rng, n - 1)}}) :
              made \in {Meme_random(conf, h, r)}})

\* the inner loop of Grid.__init__: the cells (x, y), (x, y+1), ... of row x
RECURSIVE init_row(_, _, _, _, _, _, _)
init_row(conf, h, r, size, x, y, cells) ==
    IF y = size THEN [heap |-> h, rng |-> r, ret |-> cells]
    ELSE The({The({The({init_row(conf, made.heap, memes.rng, size, x, y + 1, filled) :
                        filled \in {(<<x, y>> :> made.ret) @@ cells}}) :
                   made \in {Agent_init(conf, memes.heap, x, y, memes.ret)}}) :
              memes \in {initial_memes(conf, h, r, conf.POOL_SIZE)}})

\* the outer loop of Grid.__init__: the rows x, x+1, ...
RECURSIVE init_cells(_, _, _, _, _, _)
init_cells(conf, h, r, size, x, cells) ==
    IF x = size THEN [heap |-> h, rng |-> r, ret |-> cells]
    ELSE The({init_cells(conf, row.heap, row.rng, size, x + 1, row.ret) :
              row \in {init_row(conf, h, r, size, x, 0, cells)}})

\* Grid(size, rng)
Grid_init(conf, h, r, size) ==
    LET built == init_cells(conf, h, r, size, 0, <<>>)
    IN  [heap |-> built.heap, rng |-> built.rng,
         ret |-> [size |-> size, agents |-> built.ret]]

\* the neighbourhood on a grid with walls: coordinates are clamped to the grid
get_moore_neighbors_clamped(g, x, y) ==
    LET offsets == << <<-1, -1>>, <<-1, 0>>, <<-1, 1>>, <<0, -1>>,
                      <<0, 1>>, <<1, -1>>, <<1, 0>>, <<1, 1>> >>
        clamp(v) == IF v < 0 THEN 0 ELSE IF v > g.size - 1 THEN g.size - 1 ELSE v
    IN  [i \in 1..8 |->
            g.agents[<<clamp(x + offsets[i][1]), clamp(y + offsets[i][2])>>]]

\* Grid.get_moore_neighbors(x, y): the Agent addresses, dx outer, dy inner
get_moore_neighbors(g, x, y) ==
    LET offsets == << <<-1, -1>>, <<-1, 0>>, <<-1, 1>>, <<0, -1>>,
                      <<0, 1>>, <<1, -1>>, <<1, 0>>, <<1, 1>> >>
    IN  [i \in 1..8 |->
            g.agents[<<(x + offsets[i][1]) % g.size, (y + offsets[i][2]) % g.size>>]]

\* Grid.get_agent(x, y)
get_agent(g, x, y) == g.agents[<<x, y>>]

\* Grid.get_all_agents(): self.agents.flatten().tolist()
get_all_agents(g) ==
    [i \in 1..(g.size * g.size) |-> g.agents[<<(i - 1) \div g.size, (i - 1) % g.size>>]]

\* an assertion that only rejects lists that are too short
set_all_agents_ok_at_least(g, agents) == Len(agents) >= g.size * g.size

\* set_all_agents filling the cells column by column
set_all_agents_column_major(g, agents) ==
    [g EXCEPT !.agents = [c \in Coords(g.size) |-> agents[(c[2] * g.size) + c[1] + 1]]]

\* the assertion of Grid.set_all_agents
set_all_agents_ok(g, agents) == Len(agents) = g.size * g.size

\* Grid.set_all_agents(agents): cell (x,y) takes agents[idx], idx = x*size + y
set_all_agents(g, agents) ==
    [g EXCEPT !.agents = [c \in Coords(g.size) |-> agents[(c[1] * g.size) + c[2] + 1]]]

RECURSIVE inject_patterns(_, _, _, _, _)
\* an injection that makes the seed meme the only member of the pool
inject_patterns_overwrites(conf, g, h, r, patterns) ==
    IF patterns = <<>> THEN [heap |-> h, rng |-> r, raised |-> FALSE]
    ELSE LET dx == rng_integers(r, 0, g.size)
             dy == rng_integers(dx.rng, 0, g.size)
         IN  IF ~Meme_init_ok(conf, Head(patterns))
             THEN [heap |-> h, rng |-> dy.rng, raised |-> TRUE]
             ELSE LET agent == g.agents[<<dx.ret, dy.ret>>]
                  IN  The({inject_patterns(conf, g,
                               [seed_meme.heap EXCEPT
                                   !.agents[agent].meme_pool = <<seed_meme.ret>>],
                               dy.rng, Tail(patterns)) :
                           seed_meme \in {Meme_init(h, Head(patterns), 0)}})

\* Grid.inject_patterns(patterns): stops at the first pattern Meme() rejects
inject_patterns(conf, g, h, r, patterns) ==
    IF patterns = <<>> THEN [heap |-> h, rng |-> r, raised |-> FALSE]
    ELSE LET dx == rng_integers(r, 0, g.size)
             dy == rng_integers(dx.rng, 0, g.size)
         IN  IF ~Meme_init_ok(conf, Head(patterns))
             THEN [heap |-> h, rng |-> dy.rng, raised |-> TRUE]
             ELSE LET agent == g.agents[<<dx.ret, dy.ret>>]
                  IN  The({The({inject_patterns(conf, g, added, dy.rng, Tail(patterns)) :
                                added \in {add_to_pool(conf, seed_meme.heap, agent, seed_meme.ret)}}) :
                           seed_meme \in {Meme_init(h, Head(patterns), 0)}})

SeqMin(s) == CHOOSE v \in Range(s) : \A w \in Range(s) : v <= w
SeqMax(s) == CHOOSE v \in Range(s) : \A w \in Range(s) : v >= w

\* what a cell's pool shows: the patterns and ages of its members, in order
PoolView(h, a) ==
    [i \in DOMAIN pool_of(h, a) |-> [pattern |-> h.memes[pool_of(h, a)[i]].pattern,
                                     age |-> h.memes[pool_of(h, a)[i]].age]]

\* Grid.get_grid_stats(): the counts and the dominant-meme extremes and mean
get_grid_stats(conf, g, h) ==
    LET agents == get_all_agents(g)
        dominant(i) == h.memes[get_dominant_meme(conf, h, agents[i])].pattern
        dominant_complexities == [i \in DOMAIN agents |-> complexity(dominant(i))]
        dominant_utilities == [i \in DOMAIN agents |-> utility(conf, dominant(i))]
        dominant_scores ==
            [i \in DOMAIN agents |-> combined_score(conf, dominant(i), conf.ALPHA, conf.BETA)]
        total == SumSeq([i \in DOMAIN agents |-> Len(pool_of(h, agents[i]))])
        unique_patterns ==
            UNION {{m.pattern : m \in Range(PoolView(h, agents[i]))} : i \in DOMAIN agents}
    IN  [avg_dominant_complexity |-> SumSeq(dominant_complexities) \div Len(agents),
         min_dominant_complexity |-> SeqMin(dominant_complexities),
         max_dominant_complexity |-> SeqMax(dominant_complexities),
         avg_dominant_utility |-> SumSeq(dominant_utilities) \div Len(agents),
         avg_dominant_score |-> SumSeq(dominant_scores) \div Len(agents),
         unique_patterns |-> Cardinality(unique_patterns),
         total_patterns |-> total]

(***************************************************************************)
(* The heap keeps the objects that are still referenced.                   *)
(***************************************************************************)
\* the objects reachable from the Agent addresses in roots
collect(h, roots) ==
    LET live == roots \cap DOMAIN h.agents
        memes == UNION {Range(h.agents[a].meme_pool) : a \in live}
    IN  [memes |-> [m \in memes |-> h.memes[m]],
         agents |-> [a \in live |-> h.agents[a]],
         next_id |-> h.next_id]

GridAgents(g) == {g.agents[c] : c \in DOMAIN g.agents}

EmptyHeap == [memes |-> <<>>, agents |-> <<>>, next_id |-> 1]

(***************************************************************************)
(* SimulationEngine (src/simulation/engine.py).  step() is followed        *)
(* through its loops: one action per agent of the internal phase, one per  *)
(* new agent of the external phase.                                        *)
(***************************************************************************)
\* what the accessors of the grid show: every cell's pool, in canonical order
View(g, h) == [i \in 1..(g.size * g.size) |-> PoolView(h, get_all_agents(g)[i])]

\* the dominant pattern of every cell, in canonical order
DominantView(conf, g, h) ==
    [i \in 1..(g.size * g.size) |->
        h.memes[get_dominant_meme(conf, h, get_all_agents(g)[i])].pattern]

NoHist == [pre_view |-> <<>>, pre_dominant |-> <<>>, ext_heap |-> EmptyHeap,
           ext_view |-> <<>>, ext_old |-> <<>>, ext_log |-> <<>>, int_log |-> <<>>,
           int_reads |-> <<>>,
           reads |-> {},
           published |-> 0, steps |-> 0, gen0 |-> <<>>, stream |-> 0,
           pre_heap |-> EmptyHeap]

NoCall == [n |-> 0, op |-> "none", args |-> <<>>, ret |-> <<>>, raised |-> FALSE,
           before |-> <<>>]

\* the objects referenced by the grid and by the locals of the running step
Roots(g, alls, olds, news) == GridAgents(g) \cup Range(alls) \cup Range(olds) \cup Range(news)

\* step(): entry, and all_agents = self.grid.get_all_agents() of phase 1
StepBegin ==
    /\ pc = "idle"
    /\ generation < MaxGen
    /\ pc' = "internal"
    /\ idx' = 1
    /\ all_agents' = get_all_agents(grid)
    /\ hist' = [NoHist EXCEPT !.pre_view = View(grid, heap),
                              !.pre_dominant = DominantView(cfg, grid, heap),
                              !.reads = {View(grid, heap)},
                              !.steps = hist.steps,
                              !.gen0 = hist.gen0,
                              !.stream = hist.stream,
                              !.pre_heap = heap]
    /\ UNCHANGED <<cfg, heap, rng, grid, generation, old_agents, new_agents, stats, call>>

\* the iteration drawing from the generator of the process (np.random's own),
\* whose values the draws of the run do not determine, instead of the engine's
InternalAgent_global_rng ==
    /\ pc = "internal"
    /\ \E k \in {0, 1} :
          LET agent == all_agents[idx]
              rehearsed == internal_rehearsal(cfg, heap, Stream(k, 1 + cfg.MEME_LENGTH), agent)
              aged == age_memes(rehearsed.heap, agent)
          IN  /\ heap' = collect(aged, Roots(grid, all_agents, old_agents, new_agents))
              /\ rng' = rng
    /\ hist' = [hist EXCEPT
                  !.int_log = Append(@, all_agents[idx]),
                  !.int_reads =
                      Append(@, heap'.memes[get_dominant_meme(cfg, heap', all_agents[idx])].pattern),
                  !.reads = @ \cup {View(grid, heap')}]
    /\ IF idx = Len(all_agents)
       THEN pc' = "external_begin" /\ idx' = 1 /\ all_agents' = <<>>
       ELSE pc' = pc /\ idx' = idx + 1 /\ all_agents' = all_agents
    /\ UNCHANGED <<cfg, grid, generation, old_agents, new_agents, stats, call>>

\* the iteration with the two calls exchanged: ageing first, rehearsal second
InternalAgent_age_first ==
    /\ pc = "internal"
    /\ LET agent == all_agents[idx]
           aged == age_memes(heap, agent)
           rehearsed == internal_rehearsal(cfg, aged, rng, agent)
       IN  /\ heap' = collect(rehearsed.heap, Roots(grid, all_agents, old_agents, new_agents))
           /\ rng' = rehearsed.rng
    /\ hist' = [hist EXCEPT
                  !.int_log = Append(@, all_agents[idx]),
                  !.int_reads =
                      Append(@, heap'.memes[get_dominant_meme(cfg, heap', all_agents[idx])].pattern),
                  !.reads = @ \cup {View(grid, heap')}]
    /\ IF idx = Len(all_agents)
       THEN pc' = "external_begin" /\ idx' = 1 /\ all_agents' = <<>>
       ELSE pc' = pc /\ idx' = idx + 1 /\ all_agents' = all_agents
    /\ UNCHANGED <<cfg, grid, generation, old_agents, new_agents, stats, call>>

\* one iteration of the loop of _internal_dynamics_phase: the rehearsal, the
\* ageing, and dominant = agent.get_dominant_meme(), read while the agents
\* after this one are still as the step found them (the statistics of the
\* pool logged under DEBUG are read at the same point)
InternalAgent ==
    /\ pc = "internal"
    /\ LET agent == all_agents[idx]
           rehearsed == internal_rehearsal(cfg, heap, rng, agent)
           aged == age_memes(rehearsed.heap, agent)
       IN  /\ heap' = collect(aged, Roots(grid, all_agents, old_agents, new_agents))
           /\ rng' = rehearsed.rng
    /\ hist' = [hist EXCEPT
                  !.int_log = Append(@, all_agents[idx]),
                  !.int_reads =
                      Append(@, heap'.memes[get_dominant_meme(cfg, heap', all_agents[idx])].pattern),
                  !.reads = @ \cup {View(grid, heap')}]
    /\ IF idx = Len(all_agents)
       THEN pc' = "external_begin" /\ idx' = 1 /\ all_agents' = <<>>
       ELSE pc' = pc /\ idx' = idx + 1 /\ all_agents' = all_agents
    /\ UNCHANGED <<cfg, grid, generation, old_agents, new_agents, stats, call>>

\* new_agents = [agent.copy() for agent in old_agents]
RECURSIVE copy_agents(_, _, _)
copy_agents(conf, h, olds) ==
    IF olds = <<>> THEN [heap |-> h, ret |-> <<>>]
    ELSE The({The({[heap |-> rest.heap, ret |-> <<made.ret>> \o rest.ret] :
                   rest \in {copy_agents(conf, made.heap, Tail(olds))}}) :
              made \in {Agent_copy(conf, h, Head(olds))}})

\* _external_dynamics_phase up to its loop: old_agents, new_agents
ExternalBegin ==
    /\ pc = "external_begin"
    /\ LET olds == get_all_agents(grid)
           copies == copy_agents(cfg, heap, olds)
       IN  /\ old_agents' = olds
           /\ new_agents' = copies.ret
           /\ heap' = copies.heap
           /\ hist' = [hist EXCEPT !.ext_heap = copies.heap,
                                   !.ext_view = View(grid, heap),
                                   !.ext_old = olds,
                                   !.reads = @ \cup {View(grid, heap)}]
    /\ pc' = "external"
    /\ idx' = 1
    /\ UNCHANGED <<cfg, rng, grid, generation, all_agents, stats, call>>

\* one iteration of the loop of _external_dynamics_phase, the neighbours being
\* looked up in the grid g
external_iteration(g) ==
    /\ pc = "external"
    /\ LET new_agent == new_agents[idx]
           old_neighbors ==
               get_moore_neighbors(g, heap.agents[new_agent].x, heap.agents[new_agent].y)
           c == rng_choice(rng, Len(old_neighbors))
           selected_neighbor == old_neighbors[c.ret]
           neighbor_dominant == get_dominant_meme(cfg, heap, selected_neighbor)
           received == receive_meme(cfg, heap, c.rng, new_agent, neighbor_dominant)
       IN  /\ heap' = collect(received.heap, Roots(grid, all_agents, old_agents, new_agents))
           /\ rng' = received.rng
           /\ hist' = [hist EXCEPT
                         !.ext_log = Append(@, [target |-> new_agent,
                                                neighbor |-> selected_neighbor,
                                                source |-> neighbor_dominant,
                                                source_pattern |-> heap.memes[neighbor_dominant].pattern,
                                                rng |-> Take(rng, 1 + cfg.MEME_LENGTH)]),
                         !.reads = @ \cup {View(grid, heap)}]
    /\ IF idx = Len(new_agents)
       THEN pc' = "publish" /\ idx' = 1
       ELSE pc' = pc /\ idx' = idx + 1
    /\ UNCHANGED <<cfg, grid, generation, all_agents, old_agents, new_agents, stats, call>>

\* the iteration with the neighbours looked up among the new agents
ExternalAgent_reads_new == external_iteration(set_all_agents(grid, new_agents))

\* the loop reads self.grid, which still holds the old agents
ExternalAgent == external_iteration(grid)

\* the replacement made without waiting for the loop to end
Publish_without_barrier ==
    /\ pc \in {"external", "publish"}
    /\ set_all_agents_ok(grid, new_agents)
    /\ grid' = set_all_agents(grid, new_agents)
    /\ heap' = collect(heap, GridAgents(grid'))
    /\ old_agents' = <<>>
    /\ new_agents' = <<>>
    /\ hist' = [hist EXCEPT !.published = @ + 1]
    /\ pc' = "generation"
    /\ UNCHANGED <<cfg, rng, generation, idx, all_agents, stats, call>>

\* self.grid.set_all_agents(new_agents), and the return of the phase
Publish ==
    /\ pc = "publish"
    /\ set_all_agents_ok(grid, new_agents)
    /\ grid' = set_all_agents(grid, new_agents)
    /\ heap' = collect(heap, GridAgents(grid'))
    /\ old_agents' = <<>>
    /\ new_agents' = <<>>
    /\ hist' = [hist EXCEPT !.published = @ + 1]
    /\ pc' = "generation"
    /\ UNCHANGED <<cfg, rng, generation, idx, all_agents, stats, call>>

\* the counter advanced by two
IncrementGeneration_by_two ==
    /\ pc = "generation"
    /\ generation' = generation + 2
    /\ pc' = "stats"
    /\ UNCHANGED <<cfg, heap, rng, grid, idx, all_agents, old_agents, new_agents,
                   stats, hist, call>>

\* self.generation += 1
IncrementGeneration ==
    /\ pc = "generation"
    /\ generation' = generation + 1
    /\ pc' = "stats"
    /\ UNCHANGED <<cfg, heap, rng, grid, idx, all_agents, old_agents, new_agents,
                   stats, hist, call>>

\* stats = self.grid.get_grid_stats(), the log line, and the return of step()
LogStats ==
    /\ pc = "stats"
    /\ stats' = get_grid_stats(cfg, grid, heap)
    /\ hist' = [hist EXCEPT !.reads = @ \cup {View(grid, heap)}, !.steps = @ + 1]
    /\ pc' = "idle"
    /\ UNCHANGED <<cfg, heap, rng, grid, generation, idx, all_agents, old_agents,
                   new_agents, call>>

Step ==
    \/ StepBegin
    \/ InternalAgent
    \/ ExternalBegin
    \/ ExternalAgent
    \/ Publish
    \/ IncrementGeneration
    \/ LogStats

(***************************************************************************)
(* Calls made between steps by the owner of the engine: the engine is idle *)
(* when they run.                                                          *)
(***************************************************************************)
\* the lists of patterns handed to inject_patterns
InjectLists(conf) ==
    LET L == conf.MEME_LENGTH
        zeros == [i \in 1..L |-> 0]
        ones == [i \in 1..L |-> 1]
        half == [i \in 1..L |-> IF i <= L \div 2 THEN 0 ELSE 1]
    IN  {<<>>, <<half>>, <<zeros, ones>>, <<ones, Tail(zeros)>>, <<[half EXCEPT ![1] = 2]>>}

CallInjectPatterns ==
    /\ pc = "idle"
    /\ call.n < MaxCalls
    /\ \E patterns \in InjectLists(cfg) :
          LET done == inject_patterns(cfg, grid, heap, rng, patterns)
          IN  /\ heap' = collect(done.heap, GridAgents(grid))
              /\ rng' = done.rng
              /\ call' = [n |-> call.n + 1, op |-> "inject_patterns", args |-> patterns,
                          ret |-> <<>>, raised |-> done.raised,
                          before |-> [view |-> View(grid, heap), generation |-> generation,
                                      grid |-> grid,
                                      rng |-> Take(rng, 2 * Len(patterns))]]
    /\ UNCHANGED <<cfg, grid, generation, pc, idx, all_agents, old_agents, new_agents,
                   stats, hist>>

\* SimulationEngine.get_generation()
CallGetGeneration ==
    /\ pc = "idle"
    /\ call.n < MaxCalls
    /\ call' = [n |-> call.n + 1, op |-> "get_generation", args |-> <<>>,
                ret |-> generation, raised |-> FALSE,
                before |-> [view |-> View(grid, heap), generation |-> generation,
                            grid |-> grid, rng |-> <<>>]]
    /\ UNCHANGED <<cfg, heap, rng, grid, generation, pc, idx, all_agents, old_agents,
                   new_agents, stats, hist>>

\* Grid.get_grid_stats(), called between steps
CallGetGridStats ==
    /\ pc = "idle"
    /\ call.n < MaxCalls
    /\ call' = [n |-> call.n + 1, op |-> "get_grid_stats", args |-> <<>>,
                ret |-> get_grid_stats(cfg, grid, heap), raised |-> FALSE,
                before |-> [view |-> View(grid, heap), generation |-> generation,
                            grid |-> grid, rng |-> <<>>]]
    /\ UNCHANGED <<cfg, heap, rng, grid, generation, pc, idx, all_agents, old_agents,
                   new_agents, stats, hist>>

\* the lists handed to set_all_agents: the agents of the grid in another
\* order, and lists of another length
ReplaceLists(g) ==
    LET agents == get_all_agents(g)
        n == Len(agents)
    IN  {agents,
         Tail(agents) \o <<Head(agents)>>,
         [i \in 1..n |-> agents[n + 1 - i]],
         Take(agents, n - 1),
         Append(agents, Head(agents)),
         <<>>}

\* Grid.set_all_agents(agents) called from outside the engine
CallSetAllAgents ==
    /\ pc = "idle"
    /\ call.n < MaxCalls
    /\ \E agents \in ReplaceLists(grid) :
          /\ grid' = IF set_all_agents_ok(grid, agents)
                     THEN set_all_agents(grid, agents)
                     ELSE grid
          /\ call' = [n |-> call.n + 1, op |-> "set_all_agents", args |-> agents,
                      ret |-> <<>>, raised |-> ~set_all_agents_ok(grid, agents),
                      before |-> [view |-> View(grid, heap), generation |-> generation,
                                  grid |-> grid, rng |-> <<>>]]
    /\ heap' = collect(heap, GridAgents(grid'))
    /\ UNCHANGED <<cfg, rng, generation, pc, idx, all_agents, old_agents, new_agents,
                   stats, hist>>

\* the parameter sets of the engine runs
EngineConfigs ==
    {SmallConfig(3, 2, TRUE, 10, 50, 50),
     SmallConfig(3, 2, FALSE, 10, 50, 50),
     SmallConfig(3, 1, FALSE, 0, 0, 0)}

\* the number of values a run draws at most: the bits of the initial memes,
\* a choice and MEME_LENGTH uniform draws per agent and phase of every step,
\* two coordinates per injected pattern
StreamLen(conf) ==
    conf.GRID_SIZE * conf.GRID_SIZE * conf.POOL_SIZE * conf.MEME_LENGTH
    + MaxGen * 2 * conf.GRID_SIZE * conf.GRID_SIZE * (1 + conf.MEME_LENGTH)
    + MaxCalls * 4

\* the generators the runs are given: what each of them will return
Streams(conf) == {Stream(k, StreamLen(conf)) : k \in 0..MaxSeed}

\* grid = Grid(size, rng), engine = SimulationEngine(grid, rng), with the
\* generator rng an input
Init ==
    /\ cfg \in EngineConfigs
    /\ \E stream \in Streams(cfg) :
          LET made == Grid_init(cfg, EmptyHeap, stream, cfg.GRID_SIZE)
          IN  /\ heap = made.heap
              /\ rng = made.rng
              /\ grid = made.ret
    /\ generation = 0
    /\ pc = "idle"
    /\ idx = 1
    /\ all_agents = <<>>
    /\ old_agents = <<>>
    /\ new_agents = <<>>
    /\ stats = <<>>
    /\ hist = NoHist
    /\ call = NoCall

Next ==
    \/ Step
    \/ CallInjectPatterns
    \/ CallGetGeneration
    \/ CallGetGridStats

Spec == Init /\ [][Next]_vars

\* the engine together with callers that replace the agents of the grid
NextGrid ==
    \/ Next
    \/ CallSetAllAgents

SpecGrid == Init /\ [][NextGrid]_vars

(***************************************************************************)
(* Runs of steps alone with both base mutation rates 0 and pools of one    *)
(* meme; hist.gen0 keeps the grid as constructed.                          *)
(***************************************************************************)
\* MU_BASE_INTERNAL = MU_BASE_EXTERNAL = 0, with and without the complexity term
NoMutationConfigs ==
    {SmallConfig(3, 1, util, 0, 0, scale) : util \in BOOLEAN, scale \in {0, 50}}

InitNoMutation ==
    /\ cfg \in NoMutationConfigs
    /\ \E stream \in Streams(cfg) :
          LET made == Grid_init(cfg, EmptyHeap, stream, cfg.GRID_SIZE)
          IN  /\ heap = made.heap
              /\ rng = made.rng
              /\ grid = made.ret
    /\ generation = 0
    /\ pc = "idle"
    /\ idx = 1
    /\ all_agents = <<>>
    /\ old_agents = <<>>
    /\ new_agents = <<>>
    /\ stats = <<>>
    /\ hist = [NoHist EXCEPT !.gen0 = View(grid, heap)]
    /\ call = NoCall

SpecNoMutation == InitNoMutation /\ [][Step]_vars

(***************************************************************************)
(* step() as a function of the engine's state, for runs that are replayed  *)
(* from their generator; hist.stream keeps which one the run was given.    *)
(***************************************************************************)
\* the loop of _internal_dynamics_phase over the agents from position i on
RECURSIVE internal_loop(_, _, _, _, _)
internal_loop(conf, h, r, agents, i) ==
    IF i > Len(agents) THEN [heap |-> h, rng |-> r]
    ELSE The({The({internal_loop(conf, aged, rehearsed.rng, agents, i + 1) :
                   aged \in {age_memes(rehearsed.heap, agents[i])}}) :
              rehearsed \in {internal_rehearsal(conf, h, r, agents[i])}})

\* _internal_dynamics_phase()
internal_dynamics_phase(conf, h, r, g) == internal_loop(conf, h, r, get_all_agents(g), 1)

\* the loop of _external_dynamics_phase over the new agents from position i on
RECURSIVE external_loop(_, _, _, _, _, _)
external_loop(conf, h, r, g, news, i) ==
    IF i > Len(news) THEN [heap |-> h, rng |-> r]
    ELSE LET old_neighbors == get_moore_neighbors(g, h.agents[news[i]].x, h.agents[news[i]].y)
             c == rng_choice(r, Len(old_neighbors))
             neighbor_dominant == get_dominant_meme(conf, h, old_neighbors[c.ret])
         IN  The({external_loop(conf, received.heap, received.rng, g, news, i + 1) :
                  received \in {receive_meme(conf, h, c.rng, news[i], neighbor_dominant)}})

\* _external_dynamics_phase()
external_dynamics_phase(conf, h, r, g) ==
    LET copies == copy_agents(conf, h, get_all_agents(g))
        done == external_loop(conf, copies.heap, r, g, copies.ret, 1)
        published == set_all_agents(g, copies.ret)
    IN  [heap |-> collect(done.heap, GridAgents(published)), rng |-> done.rng,
         grid |-> published]

\* step() on the engine state e = [heap, rng, grid, generation, stats]
step(conf, e) ==
    LET internal == internal_dynamics_phase(conf, e.heap, e.rng, e.grid)
        external == external_dynamics_phase(conf, internal.heap, internal.rng, e.grid)
    IN  [heap |-> external.heap, rng |-> external.rng, grid |-> external.grid,
         generation |-> e.generation + 1,
         stats |-> get_grid_stats(conf, external.grid, external.heap)]

\* Grid(size, rng), SimulationEngine(grid, rng) and n calls of step()
RECURSIVE run(_, _, _)
run(conf, stream, n) ==
    IF n = 0
    THEN LET made == Grid_init(conf, EmptyHeap, stream, conf.GRID_SIZE)
         IN  [heap |-> made.heap, rng |-> made.rng, grid |-> made.ret,
              generation |-> 0, stats |-> <<>>]
    ELSE The({step(conf, e) : e \in {run(conf, stream, n - 1)}})

InitSeeded ==
    /\ cfg \in EngineConfigs
    /\ \E k \in 0..MaxSeed :
          LET made == Grid_init(cfg, EmptyHeap, Stream(k, StreamLen(cfg)), cfg.GRID_SIZE)
          IN  /\ heap = made.heap
              /\ rng = made.rng
              /\ grid = made.ret
              /\ hist = [NoHist EXCEPT !.stream = k, !.gen0 = View(made.ret, made.heap)]
    /\ generation = 0
    /\ pc = "idle"
    /\ idx = 1
    /\ all_agents = <<>>
    /\ old_agents = <<>>
    /\ new_agents = <<>>
    /\ stats = <<>>
    /\ call = NoCall

SpecSeeded == InitSeeded /\ [][Step]_vars

(***************************************************************************)
(* Runs on the same generator that differ in what is neither configuration *)
(* nor draw: the identities the interpreter gives the objects (the address *)
(* the first allocation gets), and the read-only calls made between steps. *)
(***************************************************************************)
\* the addresses the first object of a run can get
AddressBases == {1, 4}

InitReplayed ==
    /\ cfg \in EngineConfigs
    /\ \E k \in 0..MaxSeed, base \in AddressBases :
          LET made == Grid_init(cfg, [EmptyHeap EXCEPT !.next_id = base],
                                Stream(k, StreamLen(cfg)), cfg.GRID_SIZE)
          IN  /\ heap = made.heap
              /\ rng = made.rng
              /\ grid = made.ret
              /\ hist = [NoHist EXCEPT !.stream = k, !.gen0 = View(made.ret, made.heap)]
    /\ generation = 0
    /\ pc = "idle"
    /\ idx = 1
    /\ all_agents = <<>>
    /\ old_agents = <<>>
    /\ new_agents = <<>>
    /\ stats = <<>>
    /\ call = NoCall

NextReplayed ==
    \/ Step
    \/ CallGetGeneration
    \/ CallGetGridStats

SpecReplayed == InitReplayed /\ [][NextReplayed]_vars

(***************************************************************************)
(* Grid.get_moore_neighbors on grids of every size up to MaxN.             *)
(***************************************************************************)
\* the largest grid the neighbourhood is computed on
MaxN == 5

\* Grid(size, rng) for every size, POOL_SIZE 1
InitMoore ==
    /\ \E size \in 1..MaxN :
          /\ cfg = SmallConfig(size, 1, TRUE, 10, 50, 50)
          /\ \E stream \in Streams(cfg) :
                LET made == Grid_init(cfg, EmptyHeap, stream, size)
                IN  /\ heap = made.heap
                    /\ rng = made.rng
                    /\ grid = made.ret
    /\ generation = 0
    /\ pc = "grid"
    /\ idx = 1
    /\ all_agents = <<>>
    /\ old_agents = <<>>
    /\ new_agents = <<>>
    /\ stats = <<>>
    /\ hist = NoHist
    /\ call = NoCall

\* grid.get_moore_neighbors(x, y)
CallGetMooreNeighbors ==
    /\ pc = "grid"
    /\ call.n < MaxCalls
    /\ \E x, y \in 0..(grid.size - 1) :
          call' = [n |-> call.n + 1, op |-> "get_moore_neighbors", args |-> <<x, y>>,
                   ret |-> get_moore_neighbors(grid, x, y), raised |-> FALSE,
                   before |-> [view |-> View(grid, heap), generation |-> generation,
                               grid |-> grid, rng |-> <<>>]]
    /\ UNCHANGED <<cfg, heap, rng, grid, generation, pc, idx, all_agents, old_agents,
                   new_agents, stats, hist>>

SpecMoore == InitMoore /\ [][CallGetMooreNeighbors]_vars

(***************************************************************************)
(* Agents driven directly.  The operations of Agent are applied, in any    *)
(* order, to an agent built from an arbitrary list of memes and to a copy  *)
(* of it; call records the last operation, with the state it was applied   *)
(* to.                                                                     *)
(***************************************************************************)
\* number of operations applied to the agent under test
MaxOps == 2

\* the parameter sets of the agent runs
AgentConfigs ==
    {SmallConfig(1, k, util, 10, 50, 50) : k \in {1, 2}, util \in BOOLEAN}

\* the uniform draws a copy is made with, in hundredths: none below any
\* rate, all below every positive rate, and two that fall on either side of
\* the rates the configurations give
UniformDraws(conf) ==
    {[i \in 1..conf.MEME_LENGTH |-> (ONE \div 100) * row[((i - 1) % 4) + 1]] :
        row \in {<<99, 99, 99, 99>>, <<0, 0, 0, 0>>, <<5, 20, 40, 90>>, <<60, 32, 72, 5>>}}

\* uniform draws next to the rates of a pattern with one 1 or one 0: the last
\* unit below 0.1 + 0.5 * complexity and the first not below it, and the same
\* for 0.5 + 0.5 * complexity
BoundaryDraws(conf) ==
    {[i \in 1..conf.MEME_LENGTH |-> row[((i - 1) % 4) + 1]] :
        row \in {<<30281953, 30281954, 70281953, 70281954>>}}

\* what the generator handed to internal_rehearsal returns: the value the
\* choice is made with, then the uniform draws
RehearsalDraws(conf) ==
    {<<c>> \o u : c \in {0, ONE \div 2}, u \in UniformDraws(conf)}

\* the patterns the initial memes are built from; under either policy two of
\* them tie
InitPatterns == {<<0, 0, 0, 0>>, <<0, 0, 1, 1>>, <<0, 0, 0, 1>>, <<0, 1, 1, 1>>}

\* the patterns handed to _add_to_pool and to receive_meme
InsertPatterns == {<<0, 0, 0, 0>>, <<1, 0, 1, 0>>, <<1, 1, 1, 0>>}

InitialLists(conf) ==
    UNION {[1..n -> InitPatterns] : n \in 0..(conf.POOL_SIZE + 1)}

\* [Meme(p) for p in patterns]
RECURSIVE make_memes(_, _)
make_memes(h, patterns) ==
    IF patterns = <<>> THEN [heap |-> h, ret |-> <<>>]
    ELSE The({The({[heap |-> rest.heap, ret |-> <<made.ret>> \o rest.ret] :
                   rest \in {make_memes(made.heap, Tail(patterns))}}) :
              made \in {Meme_init(h, Head(patterns), 0)}})

NoGrid == [size |-> 0, agents |-> <<>>]

AgentCall(n, op, target, args, ret, raised, self, other, before) ==
    [n |-> n, op |-> op, target |-> target, args |-> args, ret |-> ret,
     raised |-> raised, self |-> self, other |-> other, before |-> before]

\* Agent(0, 0, [Meme(p) for p in patterns]); the assertion fails on an empty list
InitAgent ==
    /\ cfg \in AgentConfigs
    /\ \E patterns \in InitialLists(cfg) :
          LET memes == make_memes(EmptyHeap, patterns)
              made == Agent_init(cfg, memes.heap, 0, 0, memes.ret)
          IN  /\ rng = <<>>
              /\ IF Agent_init_ok(cfg, memes.ret)
                 THEN /\ heap = collect(made.heap, {made.ret})
                      /\ call = AgentCall(0, "Agent", made.ret, patterns, made.ret, FALSE,
                                          made.ret, 0, <<>>)
                 ELSE /\ heap = collect(memes.heap, {})
                      /\ call = AgentCall(0, "Agent", 0, patterns, 0, TRUE, 0, 0, <<>>)
    /\ grid = NoGrid
    /\ generation = 0
    /\ pc = "agent"
    /\ idx = 1
    /\ all_agents = <<>>
    /\ old_agents = <<>>
    /\ new_agents = <<>>
    /\ stats = <<>>
    /\ hist = NoHist

\* the agents an operation can be applied to
Targets == {call.self, call.other} \ {0}

AgentReady == pc = "agent" /\ call.n < MaxOps

Before(h, t) == [heap |-> h, pool |-> pool_of(h, t), view |-> PoolView(h, t)]

AgentFrame == UNCHANGED <<cfg, grid, generation, pc, idx, all_agents, old_agents,
                          new_agents, stats, hist>>

\* agent.internal_rehearsal(rng)
AgentRehearsal ==
    /\ AgentReady
    /\ \E t \in Targets, r \in RehearsalDraws(cfg) :
          LET done == internal_rehearsal(cfg, heap, r, t)
          IN  /\ heap' = collect(done.heap, Targets)
              /\ rng' = done.rng
              /\ call' = AgentCall(call.n + 1, "internal_rehearsal", t, r, <<>>, FALSE,
                                   call.self, call.other, Before(heap, t))
    /\ AgentFrame

\* agent.receive_meme(source_meme, rng), source_meme a Meme held elsewhere
AgentReceive ==
    /\ AgentReady
    /\ \E t \in Targets, pattern \in InsertPatterns, r \in UniformDraws(cfg) :
          LET source == Meme_init(heap, pattern, 0)
              done == receive_meme(cfg, source.heap, r, t, source.ret)
          IN  /\ heap' = collect(done.heap, Targets)
              /\ rng' = done.rng
              /\ call' = AgentCall(call.n + 1, "receive_meme", t, pattern, <<>>, FALSE,
                                   call.self, call.other, Before(source.heap, t))
    /\ AgentFrame

\* agent._add_to_pool(Meme(pattern)), as Grid.inject_patterns does
AgentAddToPool ==
    /\ AgentReady
    /\ \E t \in Targets, pattern \in InsertPatterns :
          LET seed_meme == Meme_init(heap, pattern, 0)
          IN  /\ heap' = collect(add_to_pool(cfg, seed_meme.heap, t, seed_meme.ret), Targets)
              /\ call' = AgentCall(call.n + 1, "add_to_pool", t, seed_meme.ret, <<>>, FALSE,
                                   call.self, call.other, Before(seed_meme.heap, t))
    /\ rng' = rng
    /\ AgentFrame

\* agent.age_memes()
AgentAgeMemes ==
    /\ AgentReady
    /\ \E t \in Targets :
          /\ heap' = collect(age_memes(heap, t), Targets)
          /\ call' = AgentCall(call.n + 1, "age_memes", t, <<>>, <<>>, FALSE,
                               call.self, call.other, Before(heap, t))
    /\ rng' = rng
    /\ AgentFrame

\* agent.copy(); the copy is kept beside the original
AgentCopy ==
    /\ AgentReady
    /\ call.self # 0
    /\ call.other = 0
    /\ LET made == Agent_copy(cfg, heap, call.self)
       IN  /\ heap' = collect(made.heap, {call.self, made.ret})
           /\ call' = AgentCall(call.n + 1, "copy", call.self, <<>>, made.ret, FALSE,
                                call.self, made.ret, Before(heap, call.self))
    /\ rng' = rng
    /\ AgentFrame

\* agent.get_dominant_meme()
AgentGetDominant ==
    /\ AgentReady
    /\ \E t \in Targets :
          call' = AgentCall(call.n + 1, "get_dominant_meme", t, <<>>,
                            get_dominant_meme(cfg, heap, t), FALSE,
                            call.self, call.other, Before(heap, t))
    /\ UNCHANGED <<heap, rng>>
    /\ AgentFrame

NextAgent ==
    \/ AgentRehearsal
    \/ AgentReceive
    \/ AgentAddToPool
    \/ AgentAgeMemes
    \/ AgentCopy
    \/ AgentGetDominant

SpecAgent == InitAgent /\ [][NextAgent]_vars

(***************************************************************************)
(* Memes driven directly: a Meme is built from an arbitrary pattern and    *)
(* its methods are applied to it and to the copies made of it.  No object  *)
(* is reclaimed, so that a source can be compared with its copy.           *)
(***************************************************************************)
\* number of operations applied to the memes under test
MaxMemeOps == 1

\* the parameter sets of the meme runs: the shipped rates under either policy,
\* no mutation at all, rates that reach 1, and no utility patterns
MemeConfigs ==
    {SmallConfig(1, 1, TRUE, 10, 50, 50),
     SmallConfig(1, 1, FALSE, 10, 50, 50),
     SmallConfig(1, 1, TRUE, 0, 0, 0),
     SmallConfig(1, 1, FALSE, 100, 50, 100),
     [SmallConfig(1, 1, TRUE, 10, 50, 50) EXCEPT !.UTILITY_PATTERNS = <<>>]}

\* every pattern of the configured length
Patterns(conf) == [1..conf.MEME_LENGTH -> {0, 1}]

\* arguments of Meme(pattern): well-formed ones, and ones of another length or
\* with an element that is not a bit
CreateInputs(conf) ==
    LET L == conf.MEME_LENGTH
        half == [i \in 1..L |-> IF i <= L \div 2 THEN 0 ELSE 1]
    IN  {half, [i \in 1..L |-> 1], Tail(half), Append(half, 0), <<>>,
         [half EXCEPT ![L] = 2], [half EXCEPT ![1] = -1]}

MemeCall(n, op, target, args, ret, raised, before) ==
    [n |-> n, op |-> op, target |-> target, args |-> args, ret |-> ret,
     raised |-> raised, before |-> before]

\* Meme(pattern, age) for a well-formed pattern
InitMeme ==
    /\ cfg \in MemeConfigs
    /\ \E pattern \in Patterns(cfg), age \in {0, 2} :
          /\ rng = <<>>
          /\ heap = Meme_init(EmptyHeap, pattern, age).heap
          /\ call = MemeCall(0, "Meme", 1, <<pattern, age>>, 1, FALSE, EmptyHeap)
    /\ grid = NoGrid
    /\ generation = 0
    /\ pc = "meme"
    /\ idx = 1
    /\ all_agents = <<>>
    /\ old_agents = <<>>
    /\ new_agents = <<>>
    /\ stats = <<>>
    /\ hist = NoHist

MemeReady == pc = "meme" /\ call.n < MaxMemeOps

MemeFrame == UNCHANGED <<cfg, grid, generation, pc, idx, all_agents, old_agents,
                         new_agents, stats, hist>>

\* Meme(pattern, age): the two assertions, then the object
MemeCreate ==
    /\ MemeReady
    /\ \E pattern \in CreateInputs(cfg), age \in {0, 1} :
          IF Meme_init_ok(cfg, pattern)
          THEN /\ heap' = Meme_init(heap, pattern, age).heap
               /\ call' = MemeCall(call.n + 1, "Meme", 0, <<pattern, age>>,
                                   Meme_init(heap, pattern, age).ret, FALSE, heap)
          ELSE /\ heap' = heap
               /\ call' = MemeCall(call.n + 1, "Meme", 0, <<pattern, age>>, 0, TRUE, heap)
    /\ rng' = rng
    /\ MemeFrame

\* meme.copy_with_mutation(mu_base, rng), mu_base one of the two configured rates
MemeCopyWithMutation ==
    /\ MemeReady
    /\ \E m \in DOMAIN heap.memes, mu_base \in {cfg.MU_BASE_INTERNAL, cfg.MU_BASE_EXTERNAL},
          r \in UniformDraws(cfg) \cup BoundaryDraws(cfg) :
          LET made == copy_with_mutation(cfg, heap, r, m, mu_base)
          IN  /\ heap' = made.heap
              /\ rng' = made.rng
              /\ call' = MemeCall(call.n + 1, "copy_with_mutation", m, <<mu_base, r>>,
                                  made.ret, FALSE, heap)
    /\ MemeFrame

\* meme.increment_age()
MemeIncrementAge ==
    /\ MemeReady
    /\ \E m \in DOMAIN heap.memes :
          /\ heap' = increment_age(heap, m)
          /\ call' = MemeCall(call.n + 1, "increment_age", m, <<>>, <<>>, FALSE, heap)
    /\ rng' = rng
    /\ MemeFrame

\* meme.entropy, meme.complexity, meme.utility and meme.combined_score(ALPHA, BETA)
MemeMetrics ==
    /\ MemeReady
    /\ \E m \in DOMAIN heap.memes :
          call' = MemeCall(call.n + 1, "metrics", m, <<>>,
                           [entropy |-> entropy(heap.memes[m].pattern),
                            complexity |-> complexity(heap.memes[m].pattern),
                            utility |-> utility(cfg, heap.memes[m].pattern),
                            combined_score |-> combined_score(cfg, heap.memes[m].pattern,
                                                              cfg.ALPHA, cfg.BETA)],
                           FALSE, heap)
    /\ UNCHANGED <<heap, rng>>
    /\ MemeFrame

NextMeme ==
    \/ MemeCreate
    \/ MemeCopyWithMutation
    \/ MemeIncrementAge
    \/ MemeMetrics

SpecMeme == InitMeme /\ [][NextMeme]_vars

(***************************************************************************)
(* The external phase, as a function of the state it started from.         *)
(***************************************************************************)
\* the grid as it was when the external phase began
OldGrid == set_all_agents(grid, hist.ext_old)

\* the position of agent a in the canonical list agents
IndexOf(agents, a) == CHOOSE i \in DOMAIN agents : agents[i] = a

\* the pool the i-th new agent must end with if it depends on nothing but the
\* state at the start of the phase and its own draws (the generator state
\* e.rng it started its iteration with)
ExpectedPool(i) ==
    LET e == hist.ext_log[i]
        h0 == hist.ext_heap
        neighbors == get_moore_neighbors(OldGrid, h0.agents[e.target].x, h0.agents[e.target].y)
        c == rng_choice(e.rng, Len(neighbors))
        dominant == get_dominant_meme(cfg, h0, neighbors[c.ret])
    IN  PoolView(receive_meme(cfg, h0, c.rng, e.target, dominant).heap, e.target)

\* C1: in the external phase every neighbour whose dominant meme is passed to
\* receive_meme is an agent of the old buffer (never a new agent), the meme
\* passed is that agent's dominant meme in the state the phase started from,
\* and every new agent's pool is determined by that state and the agent's own
\* draws alone, so the published grid does not depend on the processing order.
C1_ExternalReadsOldBuffer ==
    pc \in {"external", "publish", "generation"} =>
        \A i \in DOMAIN hist.ext_log :
            LET e == hist.ext_log[i]
            IN  /\ e.neighbor \in Range(hist.ext_old)
                /\ e.neighbor \notin Range(new_agents)
                /\ e.neighbor \in DOMAIN hist.ext_heap.agents
                /\ e.source = get_dominant_meme(cfg, hist.ext_heap, e.neighbor)
                /\ e.source_pattern = hist.ext_heap.memes[e.source].pattern
                /\ PoolView(heap, e.target) = ExpectedPool(i)
                /\ pc = "generation" => View(grid, heap)[i] = ExpectedPool(i)

\* a published step in which a cell j copied from a cell i that was processed
\* before it and whose new agent's dominant pattern differs from the old one's
C1_Witness ==
    /\ pc = "generation"
    /\ \E i, j \in DOMAIN hist.ext_log :
          /\ i < j
          /\ hist.ext_log[j].neighbor = hist.ext_old[i]
          /\ heap.memes[get_dominant_meme(cfg, heap, hist.ext_log[i].target)].pattern
               # hist.ext_heap.memes[get_dominant_meme(cfg, hist.ext_heap, hist.ext_old[i])].pattern

\* the pattern cell j received its meme from, and the dominant patterns of the
\* cell it chose, before the step and at the start of the external phase
SourceCell(j) == IndexOf(hist.ext_old, hist.ext_log[j].neighbor)
PreStepDominant(i) == hist.pre_dominant[i]
PreExternalDominant(i) ==
    hist.ext_heap.memes[get_dominant_meme(cfg, hist.ext_heap, hist.ext_old[i])].pattern

\* C2 as stated: the meme an agent received from a neighbour with a distinct
\* dominant pattern is derived from that neighbour's dominant meme as it was
\* before the step began.
C2_Original ==
    pc = "generation" =>
        \A j \in DOMAIN hist.ext_log :
            PreStepDominant(j) # PreStepDominant(SourceCell(j)) =>
                hist.ext_log[j].source_pattern = PreStepDominant(SourceCell(j))

\* C2, amended: the meme an agent received from a neighbour is derived from
\* that neighbour's dominant meme as it was when the external phase of the
\* step began (after the internal phase of the same step), never from a pool
\* changed by the external phase.
C2_ReceivedFromPreExternalDominant ==
    pc = "generation" =>
        \A j \in DOMAIN hist.ext_log :
            hist.ext_log[j].source_pattern = PreExternalDominant(SourceCell(j))

\* the dominant pattern of cell i in the published grid
PublishedDominant(i) == DominantView(cfg, grid, heap)[i]

\* two cells with distinct pre-step dominant patterns that copied from each
\* other in one step, the first of them ending the step with another dominant
\* pattern than the one the second was given
C2_Witness ==
    /\ pc = "generation"
    /\ \E i, j \in DOMAIN hist.ext_log :
          /\ i < j
          /\ SourceCell(i) = j
          /\ SourceCell(j) = i
          /\ PreStepDominant(i) # PreStepDominant(j)
          /\ PublishedDominant(i) # hist.ext_log[j].source_pattern

(***************************************************************************)
(* Agents and whole steps together: the behaviours of the engine and the   *)
(* behaviours of an agent driven directly.                                 *)
(***************************************************************************)
SpecAll == (Init \/ InitAgent) /\ [][Next \/ NextAgent]_vars

\* C3: at every point between operations (construction, rehearsal,
\* receive_meme, pattern injection, ageing, copy, and every point of a step)
\* every agent's pool holds at least one and at most POOL_SIZE memes.
C3_PoolSizeWithinBounds ==
    \A a \in DOMAIN heap.agents :
        /\ 1 <= Len(pool_of(heap, a))
        /\ Len(pool_of(heap, a)) <= cfg.POOL_SIZE

\* an insertion into a full pool has happened, on an agent built from more
\* memes than the pool holds
C3_Witness ==
    /\ pc = "agent"
    /\ call.op \in {"add_to_pool", "receive_meme", "internal_rehearsal"}
    /\ Len(call.before.pool) = cfg.POOL_SIZE
    /\ Len(pool_of(heap, call.target)) = cfg.POOL_SIZE
    /\ cfg.POOL_SIZE > 1

\* the members _add_to_pool chooses among: the pool before the call and the
\* meme appended to it
Members == Append(call.before.pool, call.args)

MemberPattern(i) == call.before.heap.memes[Members[i]].pattern

\* member i has the extreme key of the eviction policy
Worst(i) ==
    \A j \in DOMAIN Members :
        IF cfg.USE_UTILITY_SELECTION
        THEN combined_score(cfg, MemberPattern(i), cfg.ALPHA, cfg.BETA)
                 <= combined_score(cfg, MemberPattern(j), cfg.ALPHA, cfg.BETA)
        ELSE complexity(MemberPattern(i)) >= complexity(MemberPattern(j))

\* C4: _add_to_pool(meme) leaves the pool followed by the meme when that fits
\* in POOL_SIZE; otherwise it removes exactly one member of pool-plus-meme, the
\* earliest member of maximum complexity (fidelity) or of minimum combined
\* score (utility), the others keeping their order and their contents.
C4_InsertEvictsEarliestWorst ==
    (pc = "agent" /\ call.op = "add_to_pool") =>
        LET after == pool_of(heap, call.target)
        IN  /\ IF Len(Members) <= cfg.POOL_SIZE
               THEN after = Members
               ELSE \E i \in DOMAIN Members :
                       /\ after = Pop(Members, i)
                       /\ Worst(i)
                       /\ \A j \in 1..(i - 1) : ~Worst(j)
            /\ \A k \in DOMAIN after : heap.memes[after[k]] = call.before.heap.memes[after[k]]

\* an insertion into a full pool of two where two members tie for the extreme
\* and the earlier one has been removed
C4_Witness ==
    /\ pc = "agent"
    /\ call.op = "add_to_pool"
    /\ Len(Members) = 3
    /\ cfg.POOL_SIZE = 2
    /\ \E i, j \in DOMAIN Members :
          /\ i < j
          /\ Worst(i)
          /\ Worst(j)
          /\ pool_of(heap, call.target) = Pop(Members, i)

\* member i of the pool has the extreme key of the selection policy
Best(i) ==
    LET pattern(k) == heap.memes[call.before.pool[k]].pattern
    IN  \A j \in DOMAIN call.before.pool :
            IF cfg.USE_UTILITY_SELECTION
            THEN combined_score(cfg, pattern(i), cfg.ALPHA, cfg.BETA)
                     >= combined_score(cfg, pattern(j), cfg.ALPHA, cfg.BETA)
            ELSE complexity(pattern(i)) <= complexity(pattern(j))

\* C5: get_dominant_meme() returns the earliest pool member of minimum
\* complexity (fidelity) or of maximum combined score (utility), and no
\* agent ever has an empty pool for it to fail on.
C5_DominantIsEarliestBest ==
    /\ \A a \in DOMAIN heap.agents : pool_of(heap, a) # <<>>
    /\ (pc = "agent" /\ call.op = "get_dominant_meme") =>
           \E i \in DOMAIN call.before.pool :
               /\ call.ret = call.before.pool[i]
               /\ ~call.raised
               /\ Best(i)
               /\ \A j \in 1..(i - 1) : ~Best(j)

\* the dominant meme has been asked of a pool where two members tie for it
C5_Witness ==
    /\ pc = "agent"
    /\ call.op = "get_dominant_meme"
    /\ \E i, j \in DOMAIN call.before.pool :
          /\ i < j
          /\ Best(i)
          /\ Best(j)
          /\ call.ret = call.before.pool[i]

\* C6 as stated: every view of the grid read through its accessors during a
\* step is the complete state from before the step or the complete state
\* the step publishes.
C6_Original ==
    pc = "stats" => hist.reads \subseteq {hist.pre_view, View(grid, heap)}

\* the grid with the internal phase applied to its first k cells and to no
\* other: the pools of hist.ext_view in the first k places, those of
\* hist.pre_view in the rest
InternalPrefix(k) ==
    [i \in DOMAIN hist.pre_view |-> IF i <= k THEN hist.ext_view[i] ELSE hist.pre_view[i]]

\* C6, amended: the external phase changes nothing that is visible until
\* set_all_agents publishes all of its results at once.  The states read
\* during a step are the one before the step, that one with the in-place
\* internal phase (rehearsal and ageing together) applied to the first k
\* cells in canonical order, for every k up to all the cells, and the one
\* the step publishes; the dominant read for a cell inside the internal loop
\* is the one that cell has when the internal phase is complete.
C6_ExternalPhaseInvisibleUntilPublished ==
    /\ pc \in {"external", "publish"} => View(grid, heap) = hist.ext_view
    /\ pc = "stats" =>
           /\ hist.reads \subseteq
                  {hist.pre_view, View(grid, heap)}
                  \cup {InternalPrefix(k) : k \in DOMAIN hist.pre_view}
           /\ \A k \in DOMAIN hist.pre_view : InternalPrefix(k) \in hist.reads
    /\ pc = "external" =>
           /\ Len(hist.int_reads) = Len(old_agents)
           /\ \A i \in DOMAIN old_agents :
                  hist.int_reads[i]
                  = heap.memes[get_dominant_meme(cfg, heap, old_agents[i])].pattern

\* a published step whose external phase read a state that is neither the
\* one before the step nor the one published, and whose internal loop read
\* a dominant changed by the rehearsal while a later cell was not yet updated
C6_Witness ==
    /\ pc = "stats"
    /\ hist.ext_view \in hist.reads
    /\ hist.ext_view # hist.pre_view
    /\ hist.ext_view # View(grid, heap)
    /\ Len(hist.ext_log) = grid.size * grid.size
    /\ InternalPrefix(1) \in hist.reads
    /\ InternalPrefix(1) \notin {hist.pre_view, hist.ext_view}
    /\ \E i \in DOMAIN hist.int_reads :
          /\ i < Len(hist.int_reads)
          /\ hist.int_reads[i] # hist.pre_dominant[i]

\* C7: generation is 0 at construction; in every state it equals the number
\* of completed steps (plus one between the increment and the return of the
\* step that made it, whose grid is then already published); it changes only
\* by the increment of step(), by exactly one, after set_all_agents has
\* published the new agents, and no call of inject_patterns, get_grid_stats,
\* set_all_agents or get_generation changes it.
C7_GenerationCountsCompletedSteps ==
    /\ generation = 0
    /\ [](IF pc = "stats"
          THEN generation = hist.steps + 1 /\ hist.published = 1
          ELSE generation = hist.steps)
    /\ [][/\ generation' >= generation
          /\ generation' # generation =>
                /\ generation' = generation + 1
                /\ pc = "generation"
                /\ hist.published = 1
                /\ grid' = grid
          /\ call' # call => generation' = generation]_vars

\* two steps have completed, with a replacement of the agents before, between
\* or after them
C7_Witness ==
    /\ pc = "idle"
    /\ generation = 2
    /\ hist.steps = 2
    /\ call.op = "set_all_agents"
    /\ ~call.raised

\* the state a call made between steps has just returned to
Returned(op) == pc = "idle" /\ call.op = op /\ call.before.generation = generation

\* C8: set_all_agents(agents) raises whenever agents does not hold exactly
\* size*size entries, and then no cell and no pool has changed; otherwise it
\* returns normally and cell (x,y) holds agents[x*size + y] for every (x,y).
C8_SetAllAgentsChecksCount ==
    Returned("set_all_agents") =>
        LET N == grid.size
        IN  IF Len(call.args) # N * N
            THEN /\ call.raised
                 /\ grid = call.before.grid
                 /\ View(grid, heap) = call.before.view
            ELSE /\ ~call.raised
                 /\ \A x, y \in 0..(N - 1) :
                       get_agent(grid, x, y) = call.args[(x * N) + y + 1]

\* set_all_agents has been called with one agent too many
C8_Witness ==
    /\ Returned("set_all_agents")
    /\ Len(call.args) = (grid.size * grid.size) + 1
    /\ call.raised

\* C9: at construction and after every step and every inject_patterns the
\* grid holds size*size distinct agents, one per coordinate, the agent of
\* cell (x,y) has x and y as its position, and the flat order of
\* get_all_agents is the order set_all_agents writes (x outer, y inner).
C9_OneAgentPerCellAtItsPosition ==
    LET N == grid.size
    IN  /\ DOMAIN grid.agents = Coords(N)
        /\ Cardinality(GridAgents(grid)) = N * N
        /\ \A c \in Coords(N) :
              /\ grid.agents[c] \in DOMAIN heap.agents
              /\ heap.agents[grid.agents[c]].x = c[1]
              /\ heap.agents[grid.agents[c]].y = c[2]
              /\ get_all_agents(grid)[(c[1] * N) + c[2] + 1] = grid.agents[c]
        /\ Len(get_all_agents(grid)) = N * N
        /\ set_all_agents(grid, get_all_agents(grid)) = grid

\* a step has been published and a pattern injected after it
C9_Witness ==
    /\ Returned("inject_patterns")
    /\ generation >= 1
    /\ call.args # <<>>
    /\ ~call.raised

\* the cell an agent of the grid is stored at
CellOf(a) == CHOOSE c \in Coords(grid.size) : grid.agents[c] = a

\* C10: on a grid of size 3 or more get_moore_neighbors(x, y) returns the
\* agents of exactly 8 pairwise distinct cells, none of them (x,y), namely
\* ((x+dx) mod size, (y+dy) mod size) for the 8 offsets other than (0,0);
\* for (0,0) they include (size-1, size-1).
C10_MooreNeighborsAreEightCells ==
    (pc = "grid" /\ call.op = "get_moore_neighbors" /\ grid.size >= 3) =>
        LET N == grid.size
            x == call.args[1]
            y == call.args[2]
            cells == {CellOf(call.ret[i]) : i \in DOMAIN call.ret}
            offsets == ({-1, 0, 1} \X {-1, 0, 1}) \ {<<0, 0>>}
        IN  /\ Len(call.ret) = 8
            /\ Cardinality(Range(call.ret)) = 8
            /\ Cardinality(cells) = 8
            /\ <<x, y>> \notin cells
            /\ cells = {<<(x + d[1]) % N, (y + d[2]) % N>> : d \in offsets}
            /\ (x = 0 /\ y = 0) => <<N - 1, N - 1>> \in cells

\* the neighbours of the corner (0,0) have been asked for on the smallest
\* grid the claim covers, and the agent of the opposite corner is among them
C10_Witness ==
    /\ pc = "grid"
    /\ call.op = "get_moore_neighbors"
    /\ grid.size = 3
    /\ call.args = <<0, 0>>
    /\ get_agent(grid, 2, 2) \in Range(call.ret)

\* C11: in every state no Meme object is held by the pools of two different
\* agents (an old agent and its copy included) nor twice by one pool, and the
\* meme a neighbour handed over in the external phase is never itself in the
\* pool of the agent that received from it.
C11_MemesExclusivelyOwned ==
    /\ \A a, b \in DOMAIN heap.agents :
          a # b => Range(pool_of(heap, a)) \cap Range(pool_of(heap, b)) = {}
    /\ \A a \in DOMAIN heap.agents :
          Cardinality(Range(pool_of(heap, a))) = Len(pool_of(heap, a))
    /\ pc \in {"external", "publish"} =>
          \A i \in DOMAIN hist.ext_log :
              hist.ext_log[i].source \notin Range(pool_of(heap, hist.ext_log[i].target))

\* the external phase is under way: old agents and their copies exist side
\* by side and a copy has received from an old neighbour
C11_Witness ==
    /\ pc = "external"
    /\ hist.ext_log # <<>>
    /\ Range(old_agents) \cap Range(new_agents) = {}
    /\ Range(old_agents) \cup Range(new_agents) \subseteq DOMAIN heap.agents
    /\ \E i \in DOMAIN hist.ext_log :
          hist.ext_log[i].source \in Range(pool_of(heap, hist.ext_log[i].neighbor))

\* the flat positions of the cells reachable from the cells S through chains
\* of at most n neighbours
RECURSIVE Reachable(_, _)
Reachable(S, n) ==
    IF n = 0 THEN S
    ELSE Reachable(S \cup {IndexOf(get_all_agents(grid), a) :
                           a \in UNION {Range(get_moore_neighbors(grid, (i - 1) \div grid.size,
                                                                   (i - 1) % grid.size)) :
                                        i \in S}},
                   n - 1)

\* every cell holds its own generation-0 pattern or that of a cell reachable
\* from it
OnlyInheritedPatterns ==
    \A i \in 1..(grid.size * grid.size) :
        \A k \in DOMAIN View(grid, heap)[i] :
            \E j \in Reachable({i}, grid.size * grid.size) :
                View(grid, heap)[i][k].pattern = hist.gen0[j][1].pattern

\* C12 as stated: with pools of one meme and both base mutation rates 0, no
\* cell ever holds a pattern other than its own generation-0 pattern or that
\* of a cell reachable through neighbours.
C12_Original ==
    (cfg.POOL_SIZE = 1 /\ cfg.MU_BASE_INTERNAL = 0 /\ cfg.MU_BASE_EXTERNAL = 0) =>
        OnlyInheritedPatterns

\* C12, amended: the same, when the weight COMPLEXITY_SCALE_FACTOR of the
\* complexity term of the effective mutation rate is 0 as well.
C12_NoNewPatternsWithoutMutation ==
    (/\ cfg.POOL_SIZE = 1
     /\ cfg.MU_BASE_INTERNAL = 0
     /\ cfg.MU_BASE_EXTERNAL = 0
     /\ cfg.COMPLEXITY_SCALE_FACTOR = 0) =>
        /\ OnlyInheritedPatterns
        /\ \A m \in DOMAIN heap.memes :
              \E j \in DOMAIN hist.gen0 : heap.memes[m].pattern = hist.gen0[j][1].pattern

\* two steps without mutation after which a cell holds a pattern that was
\* another cell's, and not its own, at generation 0
C12_Witness ==
    /\ cfg.MU_BASE_INTERNAL = 0
    /\ cfg.MU_BASE_EXTERNAL = 0
    /\ cfg.COMPLEXITY_SCALE_FACTOR = 0
    /\ hist.gen0 # <<>>
    /\ pc = "idle"
    /\ generation = 2
    /\ \E i \in DOMAIN hist.gen0 :
          View(grid, heap)[i][1].pattern # hist.gen0[i][1].pattern

\* the run on the same configuration and the same draws that starts at the
\* first address and is never observed, after as many steps
Reference == run(cfg, Stream(hist.stream, StreamLen(cfg)), generation)

\* the reference with the internal phase of its next step applied to the
\* first k agents of its grid
ReferenceAfter(k) ==
    The({[grid |-> e.grid,
          loop |-> internal_loop(cfg, e.heap, e.rng, Take(get_all_agents(e.grid), k), 1)] :
         e \in {Reference}})

Copied == pc = "meme" /\ call.op = "copy_with_mutation"

\* the pattern of the source, the pattern and age of the copy, and the uniform
\* draws the call consumed, in units of 1/(VAL*WSCALE)
SourcePattern == call.before.memes[call.target].pattern
CopyPattern == heap.memes[call.ret].pattern
CopyAge == heap.memes[call.ret].age
Draws == rng_random(call.args[2], Len(SourcePattern)).ret

\* bit i of the copy is the flipped bit of the source exactly when draw i is
\* below mu_eff
FlippedBelow(mu_eff) ==
    \A i \in DOMAIN SourcePattern :
        CopyPattern[i] = IF Draws[i] < mu_eff THEN 1 - SourcePattern[i] ELSE SourcePattern[i]

\* mu_base + k * complexity(source) and mu_base + k * entropy(source) for the
\* call, each as the least draw that is not below it
ComplexityRate == effective_rate(cfg, SourcePattern, call.args[1])
EntropyRate ==
    rate_bound(call.args[1], cfg.COMPLEXITY_SCALE_FACTOR, entropy_fine(SourcePattern), 1,
               entropy_exact(SourcePattern))

\* C14: copy_with_mutation flips bit i exactly when draw i is below
\* mu_base + k * basis, the basis being complexity(source) under the utility
\* policy and the unnormalized entropy(source) under the fidelity policy.
C14_BasisFollowsPolicy ==
    Copied =>
        FlippedBelow(IF cfg.USE_UTILITY_SELECTION
                     THEN ComplexityRate
                     ELSE EntropyRate)

\* C15: with mu_base = 0 and COMPLEXITY_SCALE_FACTOR = 0 copy_with_mutation
\* returns, whatever the draws, a new Meme with the pattern of the source and
\* age 0, and leaves the pattern and the age of the source as they were.
C15_CopyWithoutMutationIsIdentical ==
    (Copied /\ call.args[1] = 0 /\ cfg.COMPLEXITY_SCALE_FACTOR = 0) =>
        /\ call.ret \notin DOMAIN call.before.memes
        /\ CopyPattern = SourcePattern
        /\ CopyAge = 0
        /\ heap.memes[call.target] = call.before.memes[call.target]

\* a non-uniform source of age 2 has been copied with both parameters 0
C15_Witness ==
    /\ Copied
    /\ call.args[1] = 0
    /\ cfg.COMPLEXITY_SCALE_FACTOR = 0
    /\ call.before.memes[call.target].age = 2
    /\ complexity(SourcePattern) > 0
    /\ CopyAge = 0

\* the effective flip probability of the call, in units of 1/(VAL*WSCALE),
\* rounded up to the unit
EffectiveRate == effective_rate(cfg, SourcePattern, call.args[1])

\* C16: when mu_eff is 1 or more, copy_with_mutation flips every bit,
\* whatever the draws: the copy is the bitwise complement of the source, of
\* age 0.
C16_CertainFlipComplements ==
    (Copied /\ EffectiveRate >= VAL * WSCALE) =>
        /\ \A i \in DOMAIN SourcePattern : CopyPattern[i] = 1 - SourcePattern[i]
        /\ Len(CopyPattern) = Len(SourcePattern)
        /\ CopyAge = 0

\* a copy made with mu_eff exactly 1: base rate 0.5 and a source of
\* complexity 0.5 weighted by 1
C16_Witness ==
    /\ Copied
    /\ EffectiveRate = VAL * WSCALE
    /\ call.args[1] < WSCALE
    /\ \A i \in DOMAIN SourcePattern : CopyPattern[i] = 1 - SourcePattern[i]

\* the metrics of a Meme have just been read
Measured == pc = "meme" /\ call.op = "metrics"

MeasuredPattern == heap.memes[call.target].pattern

Ones(pattern) == Cardinality({i \in DOMAIN pattern : pattern[i] = 1})

Uniform(pattern) == Ones(pattern) \in {0, Len(pattern)}

Balanced(pattern) == 2 * Ones(pattern) = Len(pattern)

\* complexity is entropy / log2(L), within [0,1], and 0 for a uniform pattern
ComplexityIsNormalizedEntropy ==
    /\ call.ret.complexity * Log2(Len(MeasuredPattern)) = call.ret.entropy
    /\ call.ret.complexity >= 0
    /\ call.ret.complexity <= VAL
    /\ Uniform(MeasuredPattern) => call.ret.complexity = 0

\* C17 as stated: complexity is entropy / log2(L), within [0,1], 0 for a
\* uniform pattern and 1 for a pattern with as many ones as zeros.
C17_Original ==
    Measured =>
        /\ ComplexityIsNormalizedEntropy
        /\ Balanced(MeasuredPattern) => call.ret.complexity = VAL

\* C17, amended: complexity is entropy / log2(L), within [0,1], 0 for a
\* uniform pattern and only for it; for a pattern with as many ones as zeros
\* the entropy is 1 and the complexity 1 / log2(L), its greatest value, which
\* is below 1 for L = 4.
C17_ComplexityOfBalancedIsInverseLog ==
    Measured =>
        /\ ComplexityIsNormalizedEntropy
        /\ call.ret.complexity = 0 => Uniform(MeasuredPattern)
        /\ Balanced(MeasuredPattern) =>
              /\ call.ret.entropy = VAL
              /\ call.ret.complexity * Log2(Len(MeasuredPattern)) = VAL
              /\ call.ret.complexity < VAL
        /\ call.ret.complexity * Log2(Len(MeasuredPattern)) <= VAL

\* the complexity of a pattern with two ones and two zeros has been read
C17_Witness ==
    /\ Measured
    /\ Balanced(MeasuredPattern)
    /\ Len(MeasuredPattern) = 4
    /\ 2 * call.ret.complexity = VAL

\* the normalized number of positions at which the measured pattern differs
\* from reference pattern j
DistanceTo(j) ==
    (Cardinality({i \in DOMAIN MeasuredPattern :
                     MeasuredPattern[i] # cfg.UTILITY_PATTERNS[j][i]}) * VAL)
        \div Len(MeasuredPattern)

\* C18: utility lies in [0,1] and is 1 minus the least normalized Hamming
\* distance to a configured reference pattern; it is 1 exactly when the
\* pattern is one of the reference patterns, and 0 when none is configured.
C18_UtilityIsClosenessToNearestReference ==
    Measured =>
        /\ call.ret.utility >= 0
        /\ call.ret.utility <= VAL
        /\ IF cfg.UTILITY_PATTERNS = <<>>
           THEN call.ret.utility = 0
           ELSE /\ \E j \in DOMAIN cfg.UTILITY_PATTERNS :
                      call.ret.utility = VAL - DistanceTo(j)
                /\ \A j \in DOMAIN cfg.UTILITY_PATTERNS :
                      call.ret.utility >= VAL - DistanceTo(j)
                /\ call.ret.utility = VAL <=> MeasuredPattern \in Range(cfg.UTILITY_PATTERNS)

\* the utility of the second reference pattern has been read
C18_Witness ==
    /\ Measured
    /\ Len(cfg.UTILITY_PATTERNS) >= 2
    /\ MeasuredPattern = cfg.UTILITY_PATTERNS[2]
    /\ MeasuredPattern # cfg.UTILITY_PATTERNS[1]
    /\ call.ret.utility = VAL

(***************************************************************************)
(* Memes, agents and whole steps together.                                 *)
(***************************************************************************)
SpecWhole == (Init \/ InitAgent \/ InitMeme) /\ [][Next \/ NextAgent \/ NextMeme]_vars

\* a sequence of MEME_LENGTH elements, each 0 or 1
WellFormed(pattern) ==
    /\ Len(pattern) = cfg.MEME_LENGTH
    /\ \A i \in DOMAIN pattern : pattern[i] = 0 \/ pattern[i] = 1

\* C19: Meme(pattern, age) raises for every pattern whose length is not
\* MEME_LENGTH or that holds an element other than 0 and 1, and then no Meme
\* exists that did not before; for every other pattern it returns a new Meme
\* with that pattern and age; inject_patterns raises on such a pattern too;
\* and every Meme there is, in a pool or not, has MEME_LENGTH elements, all
\* of them 0 or 1.
C19_OnlyWellFormedMemes ==
    /\ \A m \in DOMAIN heap.memes : WellFormed(heap.memes[m].pattern)
    /\ (pc = "meme" /\ call.op = "Meme" /\ call.n > 0) =>
           IF WellFormed(call.args[1])
           THEN /\ ~call.raised
                /\ call.ret \notin DOMAIN call.before.memes
                /\ heap.memes[call.ret] = [pattern |-> call.args[1], age |-> call.args[2]]
                /\ \A m \in DOMAIN call.before.memes : heap.memes[m] = call.before.memes[m]
           ELSE /\ call.raised
                /\ heap = call.before
    /\ (Returned("inject_patterns")
          /\ \E i \in DOMAIN call.args : ~WellFormed(call.args[i])) => call.raised

\* Meme() has been called with a pattern of the right length whose last
\* element is 2
C19_Witness ==
    /\ pc = "meme"
    /\ call.op = "Meme"
    /\ call.n > 0
    /\ Len(call.args[1]) = cfg.MEME_LENGTH
    /\ call.args[1][cfg.MEME_LENGTH] = 2
    /\ call.raised

\* the memes of agent a that were in its pool when the step began, and those
\* that were not
Survivors(a) == {m \in Range(pool_of(heap, a)) : m \in Range(pool_of(hist.pre_heap, a))}
Newcomers(a) == Range(pool_of(heap, a)) \ Range(pool_of(hist.pre_heap, a))

\* C20: when the internal phase of a step ends, every meme that was in its
\* agent's pool before the step and is still there is one generation older
\* and otherwise unchanged, and the only other member a pool can have is the
\* rehearsed copy, of age 1 (age_memes ran once per agent, after the
\* rehearsal); the pools the external phase publishes are those pools with
\* the received meme, of age 0, appended and at most one member removed, so
\* the external phase changes no age.
C20_AgedOncePerStepAfterRehearsal ==
    /\ pc = "external_begin" =>
          \A a \in GridAgents(grid) :
              /\ \A m \in Survivors(a) :
                    /\ heap.memes[m].age = hist.pre_heap.memes[m].age + 1
                    /\ heap.memes[m].pattern = hist.pre_heap.memes[m].pattern
              /\ \A m \in Newcomers(a) :
                    /\ m \notin DOMAIN hist.pre_heap.memes
                    /\ heap.memes[m].age = 1
              /\ Cardinality(Newcomers(a)) <= 1
    /\ pc = "generation" =>
          \A i \in DOMAIN hist.ext_view :
              \E p \in Patterns(cfg) :
                  LET received == Append(hist.ext_view[i], [pattern |-> p, age |-> 0])
                  IN  \/ View(grid, heap)[i] = received
                      \/ \E j \in DOMAIN received : View(grid, heap)[i] = Pop(received, j)

\* the internal phase of the second step has ended with an agent that holds
\* its rehearsed copy, of age 1, beside a meme of age 2 it held before
C20_Witness ==
    /\ pc = "external_begin"
    /\ generation = 1
    /\ \E a \in GridAgents(grid) :
          /\ Newcomers(a) # {}
          /\ \E m \in Survivors(a) : heap.memes[m].age = 2

\* the events of a step, read off two successive states
InternalEvent == Len(hist'.int_log) > Len(hist.int_log)
CopyEvent == hist'.ext_old # <<>> /\ hist.ext_old = <<>>
ReceiveEvent == Len(hist'.ext_log) > Len(hist.ext_log)
ReplaceEvent == grid' # grid \/ hist'.published > hist.published
GenerationEvent == generation' # generation
StatsEvent == hist'.steps > hist.steps

\* the new agents that have received their meme so far, in the order served
Served == [i \in DOMAIN hist.ext_log |-> hist.ext_log[i].target]

\* C21: within one step() an agent is rehearsed and aged only while nothing
\* of the external phase has happened; the N*N copies are made only after
\* every agent of the grid went through the internal phase, once each; a
\* copy receives a meme only after that; set_all_agents is called only when
\* every copy has received its meme, once each, and only if it was not
\* called yet in this step; the generation is incremented only after the
\* replacement, by one; the statistics are computed only after the increment.
C21_StepEventsInOrder ==
    [][/\ InternalEvent =>
             /\ hist.ext_old = <<>> /\ hist.ext_log = <<>> /\ new_agents = <<>>
             /\ hist.published = 0
             /\ generation = hist.steps
       /\ CopyEvent =>
             /\ hist.int_log = get_all_agents(grid)
             /\ hist.ext_log = <<>>
             /\ hist.published = 0
             /\ generation = hist.steps
             /\ Len(new_agents') = cfg.GRID_SIZE * cfg.GRID_SIZE
             /\ \A i \in DOMAIN new_agents' :
                   PoolView(heap', new_agents'[i]) = PoolView(heap, hist'.ext_old[i])
       /\ ReceiveEvent =>
             /\ hist.int_log = get_all_agents(grid)
             /\ Len(new_agents) = cfg.GRID_SIZE * cfg.GRID_SIZE
             /\ hist.published = 0
             /\ generation = hist.steps
       /\ ReplaceEvent =>
             /\ Served = new_agents
             /\ Len(new_agents) = cfg.GRID_SIZE * cfg.GRID_SIZE
             /\ hist.published = 0 /\ hist'.published = 1
             /\ get_all_agents(grid') = new_agents
             /\ generation = hist.steps
       /\ GenerationEvent =>
             /\ hist.published = 1
             /\ generation = hist.steps
             /\ generation' = generation + 1
       /\ StatsEvent =>
             /\ hist.published = 1
             /\ generation = hist.steps + 1
             /\ stats' = get_grid_stats(cfg, grid, heap)
      ]_vars

\* a second step has run to its end: nine agents rehearsed, nine copies
\* served, one replacement, the counter at 2 and the statistics computed
C21_Witness ==
    /\ pc = "idle"
    /\ hist.steps = 2
    /\ generation = 2
    /\ Len(hist.int_log) = cfg.GRID_SIZE * cfg.GRID_SIZE
    /\ Len(hist.ext_log) = cfg.GRID_SIZE * cfg.GRID_SIZE
    /\ hist.published = 1
    /\ stats # <<>>

\* the generator as each agent of the list finds it when the loop of the
\* internal phase visits the agents in the order of the list
RECURSIVE DrawsInOrder(_, _, _, _)
DrawsInOrder(conf, h, r, agents) ==
    IF agents = <<>> THEN <<>>
    ELSE The({<<r>> \o DrawsInOrder(conf, age_memes(rehearsed.heap, Head(agents)),
                                    rehearsed.rng, Tail(agents)) :
              rehearsed \in {internal_rehearsal(conf, h, r, Head(agents))}})

\* the loop body applied to the agents in the order given by the list of
\* positions, each agent drawing from the generator fixed for it
RECURSIVE UpdatedInOrder(_, _, _, _, _)
UpdatedInOrder(conf, h, draws, agents, order) ==
    IF order = <<>> THEN h
    ELSE LET a == agents[Head(order)]
         IN  The({UpdatedInOrder(conf, age_memes(rehearsed.heap, a), draws, agents,
                                 Tail(order)) :
                  rehearsed \in {internal_rehearsal(conf, h, draws[Head(order)], a)}})

\* every rehearsal first, in the order given, then every age_memes
RECURSIVE RehearsedInOrder(_, _, _, _, _)
RehearsedInOrder(conf, h, draws, agents, order) ==
    IF order = <<>> THEN h
    ELSE The({RehearsedInOrder(conf, rehearsed.heap, draws, agents, Tail(order)) :
              rehearsed \in {internal_rehearsal(conf, h, draws[Head(order)],
                                                agents[Head(order)])}})

RECURSIVE AgedInOrder(_, _, _)
AgedInOrder(h, agents, order) ==
    IF order = <<>> THEN h
    ELSE The({AgedInOrder(aged, agents, Tail(order)) :
              aged \in {age_memes(h, agents[Head(order)])}})

\* orders of visiting n agents: the loop's, its reverse, a rotation, an
\* exchange of neighbours, and the odd positions before the even ones
Orders(n) ==
    {[i \in 1..n |-> i],
     [i \in 1..n |-> n + 1 - i],
     [i \in 1..n |-> (i % n) + 1],
     [i \in 1..n |-> IF i = 1 THEN 2 ELSE IF i = 2 THEN 1 ELSE i],
     [i \in 1..n |-> IF 2 * i - 1 <= n THEN 2 * i - 1 ELSE 2 * (i - (n + 1) \div 2)]}

\* the pools of the grid after the internal phase run from heap h
PhaseView(g, h) == View(g, collect(h, GridAgents(g)))

OrderDoesNotMatter(conf, g, h, r) ==
    LET agents == get_all_agents(g)
        n == Len(agents)
        draws == DrawsInOrder(conf, h, r, agents)
        loop == PhaseView(g, internal_loop(conf, h, r, agents, 1).heap)
    IN  \A order \in Orders(n) :
            /\ PhaseView(g, UpdatedInOrder(conf, h, draws, agents, order)) = loop
            /\ PhaseView(g, AgedInOrder(RehearsedInOrder(conf, h, draws, agents, order),
                                         agents, order)) = loop

\* the pool of agent a after the loop body ran on it alone, in a heap that
\* holds a and its memes and nothing else
UpdatedAlone(conf, h, r, a) ==
    The({PoolView(age_memes(rehearsed.heap, a), a) :
         rehearsed \in {internal_rehearsal(conf, collect(h, {a}), r, a)}})

\* C22: one iteration of the loop of the internal phase changes the pool of
\* the agent it visits and nothing else: every other agent and each of its
\* memes, the cell array and the generation counter are as before, and the
\* pool it leaves is the one the same calls leave when the agent is alone in
\* memory; and when a phase starts, visiting the agents in another order, or
\* rehearsing all before ageing any, each agent with the draws the loop gives
\* it, leaves the same pools in every cell as the loop does.
C22_InternalUpdateIsLocal ==
    /\ [][InternalEvent =>
            LET a == all_agents[idx]
            IN  /\ \A b \in GridAgents(grid) \ {a} :
                      /\ heap'.agents[b] = heap.agents[b]
                      /\ \A m \in Range(pool_of(heap, b)) : heap'.memes[m] = heap.memes[m]
                /\ grid' = grid
                /\ generation' = generation
                /\ PoolView(heap', a) = UpdatedAlone(cfg, heap, rng, a)]_vars
    /\ [](pc = "internal" /\ idx = 1 => OrderDoesNotMatter(cfg, grid, heap, rng))

\* an iteration has just changed the pool of the agent it visited (the
\* rehearsed copy took the place of a member) while other agents wait
C22_Witness ==
    /\ pc = "internal"
    /\ idx = 3
    /\ generation = 1
    /\ \E i \in DOMAIN hist.pre_view :
          /\ get_all_agents(grid)[i] = hist.int_log[2]
          /\ \E k \in DOMAIN hist.pre_view[i] :
                \A j \in DOMAIN View(grid, heap)[i] :
                    View(grid, heap)[i][j].pattern # hist.pre_view[i][k].pattern

\* agent a and each meme of its pool are in heap h2 what they are in heap h1
SameObjects(h1, h2, a) ==
    /\ a \in DOMAIN h2.agents
    /\ h2.agents[a] = h1.agents[a]
    /\ \A m \in Range(pool_of(h1, a)) : m \in DOMAIN h2.memes /\ h2.memes[m] = h1.memes[m]

\* C23: from old_agents = get_all_agents() to the call of set_all_agents, the
\* old agents are the agents of the grid and each of them, with every meme of
\* its pool, is what it was when the list was taken (same members in the
\* same order, same patterns and ages); an iteration of the loop leaves every
\* agent but the new agent it serves, old or new, as it was; and the cell
\* array changes only in set_all_agents, which stores the new agents.
C23_ExternalPhaseWritesOnlyNewAgents ==
    /\ [](pc \in {"external", "publish"} =>
            /\ old_agents = get_all_agents(grid)
            /\ hist.ext_old = old_agents
            /\ \A a \in Range(old_agents) : SameObjects(hist.ext_heap, heap, a)
            /\ Range(new_agents) \cap Range(old_agents) = {})
    /\ [][/\ ReceiveEvent =>
                \A b \in (Range(old_agents) \cup Range(new_agents)) \ {new_agents[idx]} :
                    SameObjects(heap, heap', b)
          /\ grid' # grid =>
                /\ pc = "publish"
                /\ hist'.published = hist.published + 1
                /\ get_all_agents(grid') = new_agents
         ]_vars

\* the loop has served some new agents, one of which now holds a pool that
\* differs from the pool of the old agent of its cell
C23_Witness ==
    /\ pc = "external"
    /\ idx > 2
    /\ generation = 1
    /\ PoolView(heap, new_agents[1]) # PoolView(heap, old_agents[1])
    /\ PoolView(heap, new_agents[idx]) = PoolView(heap, old_agents[idx])

\* the agent of the pair original/copy that the last call was not made on
Untouched == The(Targets \ {call.target})

\* C24: copy() returns an agent that is not the original, at the same x and
\* y, whose pool lists Meme objects of its own with, position by position,
\* the patterns and ages of the original's pool, and it leaves the original
\* and its memes as they were; after that, a rehearsal, a received meme, an
\* insert (with its eviction) or an ageing applied to either of the two
\* leaves the other and each of its memes as they were.  The copies the
\* engine makes of the agents of a grid are at the cells of their originals.
C24_CopyIsDeepAndIndependent ==
    /\ (pc = "agent" /\ call.op = "copy") =>
          /\ call.ret # call.self
          /\ heap.agents[call.ret].x = heap.agents[call.self].x
          /\ heap.agents[call.ret].y = heap.agents[call.self].y
          /\ PoolView(heap, call.ret) = call.before.view
          /\ Range(pool_of(heap, call.ret)) \cap Range(call.before.pool) = {}
          /\ Range(pool_of(heap, call.ret)) \cap DOMAIN call.before.heap.memes = {}
          /\ SameObjects(call.before.heap, heap, call.self)
    /\ (/\ pc = "agent"
        /\ call.other # 0
        /\ call.op \in {"internal_rehearsal", "receive_meme", "add_to_pool", "age_memes"}) =>
          SameObjects(call.before.heap, heap, Untouched)
    /\ pc \in {"external", "publish"} =>
          \A i \in DOMAIN new_agents :
              /\ new_agents[i] # old_agents[i]
              /\ heap.agents[new_agents[i]].x = heap.agents[old_agents[i]].x
              /\ heap.agents[new_agents[i]].y = heap.agents[old_agents[i]].y
              /\ hist.ext_log = <<>> =>
                    PoolView(heap, new_agents[i]) = PoolView(heap, old_agents[i])

\* the copy has been aged and the original has not: equal patterns, the
\* copy's ages 1 and the original's 0
C24_Witness ==
    /\ pc = "agent"
    /\ call.op = "age_memes"
    /\ call.other # 0
    /\ call.target = call.other
    /\ Len(pool_of(heap, call.self)) = 2
    /\ \A i \in DOMAIN pool_of(heap, call.self) :
          /\ PoolView(heap, call.self)[i].age = 0
          /\ PoolView(heap, call.other)[i].age = 1
          /\ PoolView(heap, call.self)[i].pattern = PoolView(heap, call.other)[i].pattern

\* the key of the active policy, greater for the better pattern
Goodness(conf, pattern) ==
    IF conf.USE_UTILITY_SELECTION
    THEN combined_score(conf, pattern, conf.ALPHA, conf.BETA)
    ELSE 0 - complexity(pattern)

\* position i of the list of entries holds the earliest of its worst members
EarliestWorst(conf, entries, i) ==
    /\ \A j \in DOMAIN entries :
          Goodness(conf, entries[i].pattern) <= Goodness(conf, entries[j].pattern)
    /\ \A j \in 1..(i - 1) :
          Goodness(conf, entries[j].pattern) > Goodness(conf, entries[i].pattern)

\* what a pool shows after the normal insert of a new meme with this pattern
Inserted(conf, view, pattern) ==
    LET entries == Append(view, [pattern |-> pattern, age |-> 0])
    IN  IF Len(entries) <= conf.POOL_SIZE THEN entries
        ELSE Pop(entries, CHOOSE i \in DOMAIN entries : EarliestWorst(conf, entries, i))

\* the pattern is strictly worse than every pattern of the pool
StrictWorst(conf, view, pattern) ==
    \A j \in DOMAIN view : Goodness(conf, pattern) < Goodness(conf, view[j].pattern)

\* the last call made was inject_patterns with one well-formed pattern, and
\* no step has begun since
InjectedOne ==
    /\ pc = "idle"
    /\ call.op = "inject_patterns"
    /\ Len(call.args) = 1
    /\ ~call.raised
    /\ generation = call.before.generation

\* the canonical position of the cell the two draws of the call select
InjectedCell ==
    LET dx == rng_integers(call.before.rng, 0, grid.size)
        dy == rng_integers(dx.rng, 0, grid.size)
    IN  IndexOf(get_all_agents(grid), get_agent(grid, dx.ret, dy.ret))

\* C25: inject_patterns with one pattern leaves the pool of the cell it drew
\* as the normal insert of a new meme with that pattern and age 0 leaves it
\* (at most POOL_SIZE members, the earliest worst of pool-plus-meme removed
\* when it was full, so the pool as it was when the injected meme is the
\* strict worst), and leaves every other cell's pool, the cell array and the
\* generation counter unchanged.
C25_InjectIsNormalInsertIntoOneCell ==
    [][(call'.n = call.n + 1 /\ InjectedOne') =>
          LET c == InjectedCell'
              before == View(grid, heap)
              after == View(grid', heap')
          IN  /\ call'.before.view = before
              /\ after[c] = Inserted(cfg, before[c], call'.args[1])
              /\ Len(after[c]) <= cfg.POOL_SIZE
              /\ (Len(before[c]) = cfg.POOL_SIZE
                    /\ StrictWorst(cfg, before[c], call'.args[1])) => after[c] = before[c]
              /\ \A i \in DOMAIN after : i # c => after[i] = before[i]
              /\ DOMAIN after = DOMAIN before
              /\ grid' = grid
              /\ generation' = generation
      ]_vars

\* an injected meme took the place of a member of a full pool of two, under
\* the utility policy, after a step
C25_Witness ==
    /\ InjectedOne
    /\ cfg.USE_UTILITY_SELECTION
    /\ cfg.POOL_SIZE = 2
    /\ generation = 1
    /\ View(grid, heap)[InjectedCell][2] = [pattern |-> call.args[1], age |-> 0]
    /\ View(grid, heap)[InjectedCell][1] \in Range(call.before.view[InjectedCell])

\* an injected meme that was the strict worst of a full pool: the pool is as
\* it was
C25_WitnessRejected ==
    /\ InjectedOne
    /\ StrictWorst(cfg, call.before.view[InjectedCell], call.args[1])
    /\ View(grid, heap) = call.before.view

\* the number of memes the pools of a full grid hold together
FullCount == cfg.GRID_SIZE * cfg.GRID_SIZE * cfg.POOL_SIZE

\* C26: in every state of a run that starts from Grid(size, rng) and goes on
\* by steps and injections, stopped at any iteration of a step, the pool of
\* every agent of the grid, and of every new agent the external phase is
\* preparing, holds exactly POOL_SIZE memes; so total_patterns of the
\* statistics, whether computed by step() or asked for between steps, is
\* GRID_SIZE * GRID_SIZE * POOL_SIZE.
C26_PoolsAlwaysFull ==
    /\ \A a \in GridAgents(grid) \cup Range(new_agents) :
          Len(pool_of(heap, a)) = cfg.POOL_SIZE
    /\ stats # <<>> => stats.total_patterns = FullCount
    /\ call.op = "get_grid_stats" => call.ret.total_patterns = FullCount

\* two steps have run after an injection of two patterns into pools of two,
\* and the statistics of the second step count 18 pattern instances
C26_Witness ==
    /\ pc = "idle"
    /\ generation = 2
    /\ cfg.POOL_SIZE = 2
    /\ call.op = "inject_patterns"
    /\ Len(call.args) = 2
    /\ ~call.raised
    /\ call.before.generation = 0
    /\ stats.total_patterns = 18

\* the key of the dominant meme of agent a, greater for the better
DominantGoodness(conf, h, a) ==
    Goodness(conf, h.memes[get_dominant_meme(conf, h, a)].pattern)

\* agent a lists in heap h2 the memes it lists in heap h1, with their patterns
SamePatterns(h1, h2, a) ==
    /\ pool_of(h2, a) = pool_of(h1, a)
    /\ \A m \in Range(pool_of(h1, a)) : h2.memes[m].pattern = h1.memes[m].pattern

\* C27: no operation makes the dominant meme of an agent worse (combined
\* score not smaller under the utility policy, complexity not greater under
\* the fidelity policy): an operation that changes the members of a pool or
\* a pattern in it, be it a rehearsal, a received meme or an insert, on an
\* agent alone or in an iteration of a step, leaves the agent a dominant at
\* least as good; set_all_agents puts into a cell an agent whose dominant is
\* at least as good as that of the agent it replaces; and when a step has
\* returned, the dominant of every cell is at least as good as it was when
\* the step began.
C27_DominantNeverWorse ==
    /\ [][/\ \A a \in DOMAIN heap.agents \cap DOMAIN heap'.agents :
                \/ SamePatterns(heap, heap', a)
                \/ DominantGoodness(cfg, heap', a) >= DominantGoodness(cfg, heap, a)
          /\ \A c \in DOMAIN grid.agents :
                \/ grid'.agents[c] = grid.agents[c]
                \/ DominantGoodness(cfg, heap', grid'.agents[c])
                       >= DominantGoodness(cfg, heap, grid.agents[c])
         ]_vars
    /\ []((pc = "idle" /\ hist.pre_dominant # <<>>) =>
            \A i \in DOMAIN hist.pre_dominant :
                Goodness(cfg, DominantView(cfg, grid, heap)[i])
                    >= Goodness(cfg, hist.pre_dominant[i]))

\* a step has ended in which the dominant of a cell became strictly better
\* while that of another cell stayed as good as it was
C27_Witness ==
    /\ pc = "idle"
    /\ hist.steps = 2
    /\ \E i, j \in DOMAIN hist.pre_dominant :
          /\ Goodness(cfg, DominantView(cfg, grid, heap)[i]) > Goodness(cfg, hist.pre_dominant[i])
          /\ Goodness(cfg, DominantView(cfg, grid, heap)[j]) = Goodness(cfg, hist.pre_dominant[j])

\* the ages of the members of the pool of agent a in heap h
Ages(h, a) == [i \in DOMAIN pool_of(h, a) |-> h.memes[pool_of(h, a)[i]].age]

\* the positions of the pool of agent a that hold a meme of age 0
Newborn(h, a) == {i \in DOMAIN pool_of(h, a) : Ages(h, a)[i] = 0}

\* C28: whenever no step is running, every meme of every pool of the grid
\* has an age of at most the generation counter; and in the state step()
\* returns in, every pool holds at most one meme of age 0, which is then its
\* last member (the meme received in the external phase), while its other
\* members have age 1 or more.
C28_AgesBoundedByGeneration ==
    /\ [](pc = "idle" =>
            \A a \in GridAgents(grid) :
                \A i \in DOMAIN pool_of(heap, a) :
                    /\ Ages(heap, a)[i] >= 0
                    /\ Ages(heap, a)[i] <= generation)
    /\ [][StatsEvent =>
            /\ pc' = "idle"
            /\ \A a \in GridAgents(grid') :
                  /\ Cardinality(Newborn(heap', a)) <= 1
                  /\ Newborn(heap', a) \subseteq {Len(pool_of(heap', a))}
                  /\ \A i \in DOMAIN pool_of(heap', a) \ Newborn(heap', a) :
                        Ages(heap', a)[i] >= 1
         ]_vars

\* the second step has returned: a pool holds the meme it received, of age
\* 0, after a meme as old as the run, of age 2, and another pool has evicted
\* the meme it received and holds no meme of age 0
C28_Witness ==
    /\ pc = "idle"
    /\ generation = 2
    /\ hist.steps = 2
    /\ call.n = 0
    /\ \E a, b \in GridAgents(grid) :
          /\ Ages(heap, a) = <<2, 0>>
          /\ Newborn(heap, b) = {}

====
